---- MODULE Spec2Model ----
(***************************************************************************)
(* chachamir: a file is encrypted once with ChaCha20-Poly1305, the key is  *)
(* split into threshold shares (Shamir over GF(256), crate sharks), every  *)
(* share is written to a share container, and, optionally, the file and    *)
(* the shares are signed with a one-time ed25519 key.  The model follows   *)
(* src/src/main.rs: the Encrypt command, the environment that fills the    *)
(* share directory, and the Decrypt command, byte for byte for the         *)
(* container headers.                                                      *)
(***************************************************************************)
EXTENDS Integers, Sequences, FiniteSets, TLC

(***************************************************************************)
(* Program constants.                                                      *)
(***************************************************************************)
ALGO_VERSION == 1
KEY_LENGTH_BYTES == 32
NONCE_LENGTH_BYTES == 12
PUBLIC_KEY_LENGTH == 32
SIGNATURE_LENGTH == 64
TAG_LENGTH == 16

HEADER_FILE == <<67, 67, 77>>
HEADER_SHARE == <<67, 67, 77, 83>>

HEADER_PRE_NONCE_BYTES_FILE == 6
HEADER_PRE_NONCE_BYTES_SHARE == 7

HEADER_IS_SIGNED_BYTE_FILE == 6
HEADER_IS_SIGNED_BYTE_SHARE == 7

HEADER_LENGTH_FILE == Len(HEADER_FILE) + 1 + 1 + 1 + NONCE_LENGTH_BYTES
HEADER_LENGTH_SHARE == Len(HEADER_SHARE) + 1 + 1 + 1 + NONCE_LENGTH_BYTES + 1

(***************************************************************************)
(* Bounds of the model.                                                    *)
(***************************************************************************)
MaxPlayers == 2

(***************************************************************************)
(* Byte-sequence helpers.  Rust slices are 0-based and half-open; At and   *)
(* Slice take Rust's indices.                                              *)
(***************************************************************************)
At(v, i) == v[i + 1]
Slice(v, from, to) == SubSeq(v, from + 1, to)
Zeros(n) == [i \in 1..n |-> 0]

(***************************************************************************)
(* GF(256) as the sharks crate computes it: addition is XOR,               *)
(* multiplication and division go through log/exp tables of the            *)
(* polynomial 0x11d with generator 2.                                      *)
(***************************************************************************)
RECURSIVE Xor(_, _)
Xor(a, b) ==
    IF a = 0 THEN b
    ELSE IF b = 0 THEN a
    ELSE ((a + b) % 2) + 2 * Xor(a \div 2, b \div 2)

\* EXP_TABLE: GFExp[i + 1] = 2^i for i in 0..254
GFExp ==
   <<
      1, 2, 4, 8, 16, 32, 64, 128, 29, 58, 116, 232, 205, 135, 19, 38,
      76, 152, 45, 90, 180, 117, 234, 201, 143, 3, 6, 12, 24, 48, 96, 192,
      157, 39, 78, 156, 37, 74, 148, 53, 106, 212, 181, 119, 238, 193, 159, 35,
      70, 140, 5, 10, 20, 40, 80, 160, 93, 186, 105, 210, 185, 111, 222, 161,
      95, 190, 97, 194, 153, 47, 94, 188, 101, 202, 137, 15, 30, 60, 120, 240,
      253, 231, 211, 187, 107, 214, 177, 127, 254, 225, 223, 163, 91, 182, 113, 226,
      217, 175, 67, 134, 17, 34, 68, 136, 13, 26, 52, 104, 208, 189, 103, 206,
      129, 31, 62, 124, 248, 237, 199, 147, 59, 118, 236, 197, 151, 51, 102, 204,
      133, 23, 46, 92, 184, 109, 218, 169, 79, 158, 33, 66, 132, 21, 42, 84,
      168, 77, 154, 41, 82, 164, 85, 170, 73, 146, 57, 114, 228, 213, 183, 115,
      230, 209, 191, 99, 198, 145, 63, 126, 252, 229, 215, 179, 123, 246, 241, 255,
      227, 219, 171, 75, 150, 49, 98, 196, 149, 55, 110, 220, 165, 87, 174, 65,
      130, 25, 50, 100, 200, 141, 7, 14, 28, 56, 112, 224, 221, 167, 83, 166,
      81, 162, 89, 178, 121, 242, 249, 239, 195, 155, 43, 86, 172, 69, 138, 9,
      18, 36, 72, 144, 61, 122, 244, 245, 247, 243, 251, 235, 203, 139, 11, 22,
      44, 88, 176, 125, 250, 233, 207, 131, 27, 54, 108, 216, 173, 71, 142 >>

\* GFLog[a] = i with 2^i = a, for a in 1..255
GFLog == [a \in 1..255 |-> CHOOSE i \in 0..254 : GFExp[i + 1] = a]

GFMul(a, b) ==
    IF a = 0 \/ b = 0 THEN 0 ELSE GFExp[((GFLog[a] + GFLog[b]) % 255) + 1]

\* the divisor is never 0 where the code divides: x_j /= x_i is filtered first
GFDiv(a, b) ==
    IF a = 0 THEN 0 ELSE GFExp[((GFLog[a] + 255 - GFLog[b]) % 255) + 1]

(***************************************************************************)
(* Shamir's secret sharing as the sharks crate does it.  A share is an x   *)
(* coordinate and one y byte per byte of the secret; on disk it is the     *)
(* byte x followed by the y bytes.                                         *)
(***************************************************************************)
\* Vec::from(&Share)
ShareToBytes(sh) == <<sh.x>> \o sh.y

\* Share::try_from(&[u8]): an error below two bytes
ShareTryFrom(bytes) ==
    IF Len(bytes) < 2
    THEN [ok |-> FALSE, x |-> 0, y |-> <<>>]
    ELSE [ok |-> TRUE, x |-> bytes[1], y |-> Tail(bytes)]

\* The dealer's random polynomial for secret byte i: threshold - 1 random
\* nonzero coefficients, highest degree first, then the secret byte.  The
\* random generator's output is the function seed -> coefficient.
PolyCoef(seed, i, j) == ((seed + 7 * i + 13 * j) % 255) + 1

RandomPolynomial(secretByte, k, seed, i) ==
    [j \in 1..(IF k >= 1 THEN k - 1 ELSE 0) |-> PolyCoef(seed, i, j)] \o <<secretByte>>

\* Horner evaluation of the polynomial at x
RECURSIVE PolyFold(_, _, _, _)
PolyFold(poly, x, n, acc) ==
    IF n > Len(poly) THEN acc
    ELSE PolyFold(poly, x, n + 1, Xor(GFMul(acc, x), poly[n]))

PolyEval(poly, x) == PolyFold(poly, x, 1, 0)

\* A mutant of Dealer: one share fewer than players.
DealerOneShort(secret, threshold, players, seed) ==
    [x \in 1..(players - 1) |->
        [x |-> x,
         y |-> [i \in 1..Len(secret) |->
                   PolyEval(RandomPolynomial(secret[i], threshold, seed, i), x)]]]

\* Sharks(threshold).dealer(&secret).take(players): the shares x = 1..players
Dealer(secret, threshold, players, seed) ==
    [x \in 1..players |->
        [x |-> x,
         y |-> [i \in 1..Len(secret) |->
                   PolyEval(RandomPolynomial(secret[i], threshold, seed, i), x)]]]

\* math::interpolate: for every share i the product over the shares j with
\* x_j /= x_i of x_j / (x_j - x_i), times y_i, summed over all shares of the
\* slice (a share present twice is summed twice).
RECURSIVE LagrangeProd(_, _, _)
LagrangeProd(shares, i, j) ==
    IF j > Len(shares) THEN 1
    ELSE IF shares[j].x = shares[i].x THEN LagrangeProd(shares, i, j + 1)
    ELSE GFMul(GFDiv(shares[j].x, Xor(shares[j].x, shares[i].x)),
               LagrangeProd(shares, i, j + 1))

RECURSIVE InterpolateSum(_, _, _, _)
InterpolateSum(shares, lag, s, i) ==
    IF i > Len(shares) THEN 0
    ELSE Xor(GFMul(lag[i], shares[i].y[s]), InterpolateSum(shares, lag, s, i + 1))

Interpolate(shares) ==
    LET lag == [i \in 1..Len(shares) |-> LagrangeProd(shares, i, 1)]
    IN  [s \in 1..Len(shares[1].y) |-> InterpolateSum(shares, lag, s, 1)]

\* Sharks(threshold).recover(&shares)
SharksRecover(threshold, shares) ==
    LET keys == {shares[i].x : i \in 1..Len(shares)}
        sameLength == \A i \in 1..Len(shares) : Len(shares[i].y) = Len(shares[1].y)
    IN  IF ~sameLength
        THEN [ok |-> FALSE, err |-> "All shares must have the same length", key |-> <<>>]
        ELSE IF keys = {} \/ Cardinality(keys) < threshold
        THEN [ok |-> FALSE, err |-> "Not enough shares to recover original secret", key |-> <<>>]
        ELSE [ok |-> TRUE, err |-> "", key |-> Interpolate(shares)]

(***************************************************************************)
(* State.                                                                  *)
(***************************************************************************)
VARIABLES
    pc,        \* the position of the running command
    args,      \* the command line of Encrypt: players, threshold, sign
    target,    \* the plaintext file of Encrypt: readable, bytes
    enc,       \* locals of Encrypt: key, nonce, shares, file_plaintext, share_i
    disk,      \* what storage holds: share containers, file container, plaintext
    sigLog,    \* every (public key, message) signed so far, in order
    aeadLog,   \* every (key, nonce, ciphertext body) sealed so far, in order
    env,       \* what Decrypt is run on: strict, file fault, share directory
    dec,       \* locals of Decrypt; processed: the target file block is done
    obs        \* what a run showed: warnings, prompts, bytes verified, exit

vars == <<pc, args, target, enc, disk, sigLog, aeadLog, env, dec, obs>>

(***************************************************************************)
(* ed25519 (crate ed25519_dalek).  A public key is 32 bytes and parses     *)
(* when it is the encoding of a curve point; a signature is 64 bytes and   *)
(* parses when its scalar half is in range (the last byte has no high      *)
(* bits).  Signing is deterministic (SignatureOf, below); sigLog records   *)
(* what has been signed.                                                   *)
(***************************************************************************)
HonestKeypair == 1
AttackerKeypair == 2
Keypairs == {HonestKeypair, AttackerKeypair}

\* keypair.public.to_bytes(): the public keys of the secret keys 01 01 .. 01
\* and 02 02 .. 02
PublicKeyBytes(kp) ==
    IF kp = HonestKeypair
    THEN <<138, 136, 227, 221, 116, 9, 241, 149, 253, 82, 219, 45, 60, 186,
         93, 114, 202, 103, 9, 191, 29, 148, 18, 27, 243, 116, 136, 1, 180,
         15, 111, 92>>
    ELSE <<129, 57, 119, 14, 168, 125, 23, 95, 86, 163, 84, 102, 195, 76,
         126, 204, 203, 141, 138, 145, 180, 238, 55, 162, 93, 246, 15, 91,
         143, 201, 179, 148>>

\* Field elements modulo p = 2^255 - 19 are 32 limbs of one byte, least
\* significant first, as the key bytes are.  A value that is used more than
\* once is bound as the element of a one-element set, here and below.
RECURSIVE FeDot(_, _, _, _, _)
\* the sum of a[i] * b[k - i] for i from i to hi (limbs counted from 0), the
\* lower half of the range and then the upper half
FeDot(a, b, k, i, hi) ==
    IF i > hi THEN 0
    ELSE IF i = hi THEN a[i + 1] * b[k - i + 1]
    ELSE FeDot(a, b, k, i, (i + hi) \div 2) + FeDot(a, b, k, (i + hi) \div 2 + 1, hi)

RECURSIVE FeCarry(_, _, _, _)
\* one carry pass over the limbs i..hi, the carry out of limb hi last: the
\* lower half of the range, and its carry into the upper half
FeCarry(r, i, hi, carry) ==
    IF i > hi THEN <<carry>>
    ELSE IF i = hi
    THEN CHOOSE out \in {<<t % 256, t \div 256>> : t \in {r[i] + carry}} : TRUE
    ELSE CHOOSE out \in
            {SubSeq(low, 1, Len(low) - 1)
                 \o FeCarry(r, (i + hi) \div 2 + 1, hi, low[Len(low)]) :
                low \in {FeCarry(r, i, (i + hi) \div 2, carry)}} : TRUE

\* the carry out of the top limb comes back into limb 0 times 38
\* (2^256 = 38 modulo p)
FePass(r) ==
    CHOOSE out \in {<<c[1] + 38 * c[33]>> \o SubSeq(c, 2, 32) :
                       c \in {FeCarry(r, 1, 32, 0)}} : TRUE

\* limbs back into 0..255: a value below 2^256, not reduced below p
FeNorm(r) ==
    CHOOSE out \in
        {FePass(p3) : p3 \in {FePass(p2) : p2 \in {FePass(p1) : p1 \in {FePass(r)}}}} :
            TRUE

FeMul(a, b) ==
    IF Len(a) = 32 /\ Len(b) = 32
    THEN FeNorm([k \in 1..32 |->
            FeDot(a, b, k - 1, 0, k - 1) + 38 * FeDot(a, b, k + 31, k, 31)])
    ELSE <<>>

FeAdd(a, b) ==
    IF Len(a) = 32 /\ Len(b) = 32 THEN FeNorm([k \in 1..32 |-> a[k] + b[k]]) ELSE <<>>

RECURSIVE FePow2k(_, _)
\* x squared k times
FePow2k(x, k) ==
    IF k = 0 \/ Len(x) # 32 THEN x
    ELSE IF k = 1 THEN FeMul(x, x)
    ELSE LET h == FePow2k(x, k \div 2)
         IN  IF Len(h) = 32 THEN FePow2k(h, k - k \div 2) ELSE h

RECURSIVE FePowOnes(_, _, _)
\* from acc = x^(2^m - 1) to x^(2^(m + n) - 1): n times, square and multiply
\* by x
FePowOnes(x, acc, n) ==
    IF n = 0 \/ Len(acc) # 32 THEN acc
    ELSE IF n = 1 THEN FeMul(FeMul(acc, acc), x)
    ELSE LET h == FePowOnes(x, acc, n \div 2)
         IN  IF Len(h) = 32 THEN FePowOnes(x, h, n - n \div 2) ELSE h

\* z^((p - 1) / 2), where (p - 1) / 2 = 2^254 - 10 = 16 (2^250 - 1) + 6
FeLegendre(z) ==
    LET z2 == FeMul(z, z)
        z6 == FeMul(FeMul(z2, z2), z2)
    IN  FeMul(FePow2k(FePowOnes(z, z, 249), 4), z6)

FE_ONE == <<1>> \o Zeros(31)
\* p - 1
FE_MINUS_ONE ==
    <<236, 255, 255, 255, 255, 255, 255, 255, 255, 255, 255, 255, 255, 255,
    255, 255, 255, 255, 255, 255, 255, 255, 255, 255, 255, 255, 255, 255,
    255, 255, 255, 127>>
\* the curve constant d = -121665 / 121666
EDWARDS_D ==
    <<163, 120, 89, 19, 202, 77, 235, 117, 171, 216, 65, 65, 77, 10, 112, 0,
    152, 232, 121, 119, 121, 64, 199, 140, 115, 254, 111, 43, 238, 108, 3,
    82>>
\* the values below 2^256 that are 0 or 1 modulo p: 0, 1, p, p + 1, 2p,
\* 2p + 1
FE_ZERO_OR_ONE ==
    {<<0, 0, 0, 0, 0, 0, 0, 0, 0, 0, 0, 0, 0, 0, 0, 0, 0, 0, 0, 0, 0, 0, 0,
     0, 0, 0, 0, 0, 0, 0, 0, 0>>,
     <<1, 0, 0, 0, 0, 0, 0, 0, 0, 0, 0, 0, 0, 0, 0, 0, 0, 0, 0, 0, 0, 0, 0,
     0, 0, 0, 0, 0, 0, 0, 0, 0>>,
     <<237, 255, 255, 255, 255, 255, 255, 255, 255, 255, 255, 255, 255, 255,
     255, 255, 255, 255, 255, 255, 255, 255, 255, 255, 255, 255, 255, 255,
     255, 255, 255, 127>>,
     <<238, 255, 255, 255, 255, 255, 255, 255, 255, 255, 255, 255, 255, 255,
     255, 255, 255, 255, 255, 255, 255, 255, 255, 255, 255, 255, 255, 255,
     255, 255, 255, 127>>,
     <<218, 255, 255, 255, 255, 255, 255, 255, 255, 255, 255, 255, 255, 255,
     255, 255, 255, 255, 255, 255, 255, 255, 255, 255, 255, 255, 255, 255,
     255, 255, 255, 255>>,
     <<219, 255, 255, 255, 255, 255, 255, 255, 255, 255, 255, 255, 255, 255,
     255, 255, 255, 255, 255, 255, 255, 255, 255, 255, 255, 255, 255, 255,
     255, 255, 255, 255>>}

\* CompressedEdwardsY::decompress succeeds: with y the low 255 bits of the
\* string, u = y^2 - 1 and v = d y^2 + 1, u / v is a square modulo p, that
\* is (u v)^((p - 1) / 2) is 0 or 1
Decompresses(bytes) ==
    LET y == [i \in 1..32 |-> IF i = 32 THEN bytes[i] % 128 ELSE bytes[i]]
        yy == FeMul(y, y)
        u == FeAdd(yy, FE_MINUS_ONE)
        v == FeAdd(FeMul(EDWARDS_D, yy), FE_ONE)
    IN  FeLegendre(FeMul(u, v)) \in FE_ZERO_OR_ONE

\* The strings the containers of this model hand to PublicKey::from_bytes:
\* the two public keys, the signer's with its first byte set to 255 or
\* raised by one, and the first 32 payload bytes of the unsigned container
\* of the long plaintext under each of the two nonces.
KeyStrings ==
    {PublicKeyBytes(HonestKeypair), PublicKeyBytes(AttackerKeypair),
     [PublicKeyBytes(HonestKeypair) EXCEPT ![1] = 255],
     [PublicKeyBytes(HonestKeypair) EXCEPT ![1] = (@ + 1) % 256],
     <<222, 14, 174, 121, 160, 35, 22, 114, 25, 165, 209, 6, 145, 162, 223, 71,
       198, 154, 160, 172, 97, 163, 28, 76, 161, 186, 36, 253, 3, 24, 19, 20>>,
     <<26, 163, 172, 131, 70, 0, 182, 134, 102, 51, 12, 30, 160, 13, 1, 87,
       163, 104, 209, 69, 181, 157, 73, 78, 140, 50, 28, 238, 133, 49, 81, 3>>}

\* those of them for which Decompresses is false
KeyStringsOffCurve ==
    {[PublicKeyBytes(HonestKeypair) EXCEPT ![1] = 255],
     <<26, 163, 172, 131, 70, 0, 182, 134, 102, 51, 12, 30, 160, 13, 1, 87,
       163, 104, 209, 69, 181, 157, 73, 78, 140, 50, 28, 238, 133, 49, 81, 3>>}

\* PublicKey::from_bytes: 32 bytes that decompress to a curve point.  For
\* the strings of KeyStrings the answer of Decompresses is looked up.
PublicKeyFromBytes(bytes) ==
    IF Len(bytes) = PUBLIC_KEY_LENGTH
       /\ (IF bytes \in KeyStrings THEN bytes \notin KeyStringsOffCurve
           ELSE Decompresses(bytes))
    THEN [ok |-> TRUE, bytes |-> bytes]
    ELSE [ok |-> FALSE, bytes |-> <<>>]

\* Signature::from_bytes: a signature whose last byte has one of its three
\* high bits set is rejected
SignatureFromBytes(bytes) ==
    IF bytes[SIGNATURE_LENGTH] < 32
    THEN [ok |-> TRUE, bytes |-> bytes]
    ELSE [ok |-> FALSE, bytes |-> <<>>]

\* the position of (pk, msg) in a log, 0 when it is not there
LogIndex(log, entry) ==
    IF \E i \in 1..Len(log) : log[i] = entry
    THEN CHOOSE i \in 1..Len(log) : log[i] = entry
    ELSE 0

\* the (public key, message) pairs signed so far, after keypair.sign(msg)
SignLog(log, kp, msg) ==
    LET entry == [pk |-> PublicKeyBytes(kp), msg |-> msg]
    IN  IF LogIndex(log, entry) > 0 THEN log ELSE Append(log, entry)

(***************************************************************************)
(* ChaCha20-Poly1305 (crate chacha20poly1305, RFC 8439) with no associated *)
(* data.  The ciphertext is the plaintext XOR the ChaCha20 keystream of    *)
(* key and nonce, followed by the 16-byte Poly1305 tag of the body;        *)
(* opening recomputes the tag and compares.                                *)
(***************************************************************************)
\* 32-bit words are pairs <<low 16 bits, high 16 bits>>
Add32(a, b) ==
    <<(a[1] + b[1]) % 65536, (a[2] + b[2] + (a[1] + b[1]) \div 65536) % 65536>>

\* the XOR of two 4-bit numbers, tabulated
XOR_NIBBLES == [a \in 0..15 |-> [b \in 0..15 |-> Xor(a, b)]]

\* the XOR of two 16-bit numbers, nibble by nibble
Xor16(a, b) ==
    XOR_NIBBLES[a % 16][b % 16]
    + 16 * XOR_NIBBLES[(a \div 16) % 16][(b \div 16) % 16]
    + 256 * XOR_NIBBLES[(a \div 256) % 16][(b \div 256) % 16]
    + 4096 * XOR_NIBBLES[a \div 4096][b \div 4096]

Xor32(a, b) == <<Xor16(a[1], b[1]), Xor16(a[2], b[2])>>

\* rotate left by n bits, 0 < n <= 16
Rotl32(a, n) ==
    <<((a[1] % 2^(16 - n)) * 2^n) + (a[2] \div 2^(16 - n)),
      ((a[2] % 2^(16 - n)) * 2^n) + (a[1] \div 2^(16 - n))>>

\* the little-endian word at bytes k .. k + 3
WordOfBytes(bytes, k) ==
    <<bytes[k] + 256 * bytes[k + 1], bytes[k + 2] + 256 * bytes[k + 3]>>

BytesOfWord(w) == <<w[1] % 256, w[1] \div 256, w[2] % 256, w[2] \div 256>>

\* a += b; d ^= a; d <<<= n
ChaChaHalfStep(s, a, b, d, n) ==
    LET t == [s EXCEPT ![a] = Add32(s[a], s[b])]
    IN  [t EXCEPT ![d] = Rotl32(Xor32(t[d], t[a]), n)]

RECURSIVE ChaChaHalfSteps(_, _)
\* the half steps <<a, b, d, n>> of steps, one after the other
ChaChaHalfSteps(s, steps) ==
    IF steps = <<>> \/ Len(s) # 16 THEN s
    ELSE LET t == ChaChaHalfStep(s, steps[1][1], steps[1][2], steps[1][3],
                                 steps[1][4])
         IN  IF Len(t) = 16 THEN ChaChaHalfSteps(t, Tail(steps)) ELSE t

\* the quarter round on the words a, b, c, d of the state (counted from 1)
ChaChaQuarterRound(s, a, b, c, d) ==
    ChaChaHalfSteps(s, <<<<a, b, d, 16>>, <<c, d, b, 12>>,
                         <<a, b, d, 8>>, <<c, d, b, 7>>>>)

\* the words of the four column rounds and of the four diagonal rounds
CHACHA_QUARTER_ROUNDS ==
    <<<<1, 5, 9, 13>>, <<2, 6, 10, 14>>, <<3, 7, 11, 15>>, <<4, 8, 12, 16>>,
      <<1, 6, 11, 16>>, <<2, 7, 12, 13>>, <<3, 8, 9, 14>>, <<4, 5, 10, 15>>>>

RECURSIVE ChaChaQuarterRounds(_, _)
\* the quarter rounds on the words of rounds, one after the other
ChaChaQuarterRounds(s, rounds) ==
    IF rounds = <<>> \/ Len(s) # 16 THEN s
    ELSE LET t == ChaChaQuarterRound(s, rounds[1][1], rounds[1][2],
                                     rounds[1][3], rounds[1][4])
         IN  IF Len(t) = 16 THEN ChaChaQuarterRounds(t, Tail(rounds)) ELSE t

\* a column round and a diagonal round
ChaChaDoubleRound(s) == ChaChaQuarterRounds(s, CHACHA_QUARTER_ROUNDS)

RECURSIVE ChaChaRounds(_, _)
ChaChaRounds(s, n) ==
    IF n = 0 \/ Len(s) # 16 THEN s
    ELSE LET t == ChaChaDoubleRound(s)
         IN  IF Len(t) = 16 THEN ChaChaRounds(t, n - 1) ELSE t

\* "expand 32-byte k"
CHACHA_CONSTANTS ==
    <<<<30821, 24944>>, <<25710, 13088>>, <<11570, 31074>>, <<25972, 27424>>>>

\* the 64 bytes of the ChaCha20 block of a 32-byte key, a block counter and
\* a 12-byte nonce (20 rounds)
ChaChaBlock(key, counter, nonce) ==
    LET init == CHACHA_CONSTANTS
                \o [i \in 1..8 |-> WordOfBytes(key, 4 * i - 3)]
                \o <<<<counter % 65536, counter \div 65536>>>>
                \o [i \in 1..3 |-> WordOfBytes(nonce, 4 * i - 3)]
        w == ChaChaRounds(init, 10)
        out == [i \in 1..16 |-> BytesOfWord(Add32(w[i], init[i]))]
    IN  [j \in 1..64 |-> out[((j - 1) \div 4) + 1][((j - 1) % 4) + 1]]

\* the first n bytes of the keystream that encrypts: the blocks from
\* counter 1 on (block 0 makes the Poly1305 key)
ChaChaKeyStream(key, nonce, n) ==
    LET blocks == [c \in 1..((n + 63) \div 64) |-> ChaChaBlock(key, c, nonce)]
    IN  [i \in 1..n |-> blocks[((i - 1) \div 64) + 1][((i - 1) % 64) + 1]]

\* Poly1305 numbers are 17 limbs of one byte, least significant first.
RECURSIVE PolyDot(_, _, _, _, _)
\* the sum of h[i] * r[k - i] for i from i to hi (limbs counted from 0)
PolyDot(h, r, k, i, hi) ==
    IF i > hi THEN 0 ELSE h[i + 1] * r[k - i + 1] + PolyDot(h, r, k, i + 1, hi)

RECURSIVE PolyCarry(_, _, _)
\* one carry pass over the 17 limbs, the top limb keeping what is left
PolyCarry(h, i, carry) ==
    IF i = 17 THEN <<h[i] + carry>>
    ELSE <<(h[i] + carry) % 256>> \o PolyCarry(h, i + 1, (h[i] + carry) \div 256)

\* what is above bit 130 comes back into limb 0 times 5 (2^130 = 5 modulo
\* 2^130 - 5)
PolyPass(h) ==
    LET c == PolyCarry(h, 1, 0)
    IN  <<c[1] + 5 * (c[17] \div 4)>> \o SubSeq(c, 2, 16) \o <<c[17] % 4>>

\* limbs back into 0..255: a value below 2^130, not reduced below the
\* modulus
PolyNorm(h) == PolyPass(PolyPass(PolyPass(PolyPass(PolyPass(h)))))

\* h * r modulo 2^130 - 5; limb k of the product beyond limb 16 counts 320
\* times (2^136 = 320)
PolyMul(h, r) ==
    IF Len(h) = 17 /\ Len(r) = 17
    THEN PolyNorm([k \in 1..17 |->
            PolyDot(h, r, k - 1, 0, k - 1) + 320 * PolyDot(h, r, k + 16, k, 16)])
    ELSE <<>>

\* r of the one-time key, clamped
PolyClamp(otk) ==
    [i \in 1..17 |->
        IF i = 17 THEN 0
        ELSE IF i \in {4, 8, 12, 16} THEN otk[i] % 16
        ELSE IF i \in {5, 9, 13} THEN otk[i] - (otk[i] % 4)
        ELSE otk[i]]

RECURSIVE PolyBlocks(_, _, _, _)
\* the accumulator after the 16-byte blocks of msg from block i on
PolyBlocks(acc, r, msg, i) ==
    IF 16 * (i - 1) >= Len(msg) \/ Len(acc) # 17 THEN acc
    ELSE LET m == IF Len(msg) - 16 * (i - 1) >= 16 THEN 16
                  ELSE Len(msg) - 16 * (i - 1)
             block == [k \in 1..17 |->
                          IF k <= m THEN msg[16 * (i - 1) + k]
                          ELSE IF k = m + 1 THEN 1 ELSE 0]
             next == PolyMul([k \in 1..17 |-> acc[k] + block[k]], r)
         IN  IF Len(next) = 17 THEN PolyBlocks(next, r, msg, i + 1) ELSE next

\* the 16-byte Poly1305 tag of msg under a 32-byte one-time key
Poly1305(otk, msg) ==
    LET h == PolyBlocks(Zeros(17), PolyClamp(otk), msg, 1)
        g == PolyCarry([k \in 1..17 |-> IF k = 1 THEN h[k] + 5 ELSE h[k]], 1, 0)
        reduced == IF g[17] >= 4 THEN g ELSE h
        sum == PolyCarry([k \in 1..17 |->
                            IF k = 17 THEN 0 ELSE reduced[k] + otk[16 + k]], 1, 0)
    IN  SubSeq(sum, 1, 16)

\* a length as 8 bytes, least significant first
LengthBytes(n) ==
    [k \in 1..8 |-> IF k <= 4 THEN (n \div 256^(k - 1)) % 256 ELSE 0]

\* the tag of a ciphertext body: Poly1305, under the first 32 bytes of
\* block 0, of the body padded to 16 bytes and the lengths of the (empty)
\* associated data and of the body
AeadTag(key, nonce, body) ==
    Poly1305(SubSeq(ChaChaBlock(key, 0, nonce), 1, 32),
             body \o Zeros((16 - (Len(body) % 16)) % 16)
                  \o LengthBytes(0) \o LengthBytes(Len(body)))

\* The keystreams and the tags of the keys, nonces and plaintexts of Keys,
\* Nonces and Plaintexts below, worked out once: ChaChaKeyStream and
\* AeadTag of them.
KnownKeyStreams ==
    {
     [key |-> <<11, 22, 33, 44, 55, 66, 77, 88, 99, 110, 121, 132, 143,
               154, 165, 176, 187, 198, 209, 220, 231, 242, 253, 8, 19, 30,
               41, 52, 63, 74, 85, 96>>,
      nonce |-> <<0, 1, 2, 3, 4, 5, 6, 7, 8, 9, 10, 11>>,
      stream |-> <<223, 6, 161, 111, 189, 7, 61, 64, 32, 229, 150, 72, 196,
                  254, 188, 45, 183, 226, 223, 42, 236, 55, 135, 238, 8, 10,
                  147, 67, 198, 212, 192, 206, 116, 147, 5, 144, 200, 219,
                  10, 219, 176, 52, 206, 24, 168, 3, 21, 241, 26, 142, 168,
                  136, 82, 19, 73, 114, 5, 196, 229, 250, 193, 39, 199, 132,
                  246, 5, 1, 104, 112, 38, 75, 79, 57, 169, 16, 55, 242,
                  208, 161, 142>>],
     [key |-> <<11, 22, 33, 44, 55, 66, 77, 88, 99, 110, 121, 132, 143,
               154, 165, 176, 187, 198, 209, 220, 231, 242, 253, 8, 19, 30,
               41, 52, 63, 74, 85, 96>>,
      nonce |-> <<201, 202, 203, 204, 205, 206, 207, 208, 209, 210, 211,
                 212>>,
      stream |-> <<27, 171, 163, 149, 91, 36, 157, 180, 95, 115, 75, 80,
                  245, 81, 98, 61, 210, 16, 174, 195, 56, 9, 210, 236, 37,
                  130, 171, 80, 64, 253, 130, 217, 187, 155, 175, 79, 82,
                  104, 72, 212, 42, 124, 240, 212, 215, 39, 8, 46, 186, 120,
                  223, 104, 105, 107, 3, 173, 135, 213, 13, 140, 159, 193,
                  251, 90, 96, 195, 94, 52, 73, 182, 17, 14, 55, 93, 14,
                  174, 119, 26, 235, 37>>]
    }

KnownTags ==
    {
     [key |-> <<11, 22, 33, 44, 55, 66, 77, 88, 99, 110, 121, 132, 143,
               154, 165, 176, 187, 198, 209, 220, 231, 242, 253, 8, 19, 30,
               41, 52, 63, 74, 85, 96>>,
      nonce |-> <<0, 1, 2, 3, 4, 5, 6, 7, 8, 9, 10, 11>>,
      body |-> <<>>,
      tag |-> <<79, 194, 198, 193, 219, 208, 234, 59, 114, 83, 94, 74, 53,
               107, 22, 26>>],
     [key |-> <<11, 22, 33, 44, 55, 66, 77, 88, 99, 110, 121, 132, 143,
               154, 165, 176, 187, 198, 209, 220, 231, 242, 253, 8, 19, 30,
               41, 52, 63, 74, 85, 96>>,
      nonce |-> <<0, 1, 2, 3, 4, 5, 6, 7, 8, 9, 10, 11>>,
      body |-> <<156, 69, 236, 60, 189>>,
      tag |-> <<30, 117, 30, 188, 254, 80, 160, 45, 230, 72, 40, 172, 80,
               63, 123, 149>>],
     [key |-> <<11, 22, 33, 44, 55, 66, 77, 88, 99, 110, 121, 132, 143,
               154, 165, 176, 187, 198, 209, 220, 231, 242, 253, 8, 19, 30,
               41, 52, 63, 74, 85, 96>>,
      nonce |-> <<0, 1, 2, 3, 4, 5, 6, 7, 8, 9, 10, 11>>,
      body |-> <<222, 14, 174, 121, 160, 35, 22, 114, 25, 165, 209, 6, 145,
                162, 223, 71, 198, 154, 160, 172, 97, 163, 28, 76, 161, 186,
                36, 253, 3, 24, 19, 20, 149, 123, 234, 102, 53, 223, 1, 201,
                169, 20, 233, 54, 157, 63, 86, 187, 75, 214, 247, 238, 63,
                103, 50, 240, 140, 84, 114, 100, 100, 139, 116, 62, 55, 205,
                206, 190, 173, 194, 160, 189, 192, 169, 23, 57, 231, 204,
                130, 164>>,
      tag |-> <<95, 135, 143, 36, 225, 211, 116, 186, 198, 27, 91, 211,
               181, 19, 227, 69>>],
     [key |-> <<11, 22, 33, 44, 55, 66, 77, 88, 99, 110, 121, 132, 143,
               154, 165, 176, 187, 198, 209, 220, 231, 242, 253, 8, 19, 30,
               41, 52, 63, 74, 85, 96>>,
      nonce |-> <<201, 202, 203, 204, 205, 206, 207, 208, 209, 210, 211,
                 212>>,
      body |-> <<>>,
      tag |-> <<170, 251, 241, 134, 6, 189, 174, 113, 254, 232, 38, 225,
               108, 50, 129, 115>>],
     [key |-> <<11, 22, 33, 44, 55, 66, 77, 88, 99, 110, 121, 132, 143,
               154, 165, 176, 187, 198, 209, 220, 231, 242, 253, 8, 19, 30,
               41, 52, 63, 74, 85, 96>>,
      nonce |-> <<201, 202, 203, 204, 205, 206, 207, 208, 209, 210, 211,
                 212>>,
      body |-> <<88, 232, 238, 198, 91>>,
      tag |-> <<242, 53, 153, 20, 161, 174, 242, 179, 166, 45, 138, 249,
               50, 29, 80, 34>>],
     [key |-> <<11, 22, 33, 44, 55, 66, 77, 88, 99, 110, 121, 132, 143,
               154, 165, 176, 187, 198, 209, 220, 231, 242, 253, 8, 19, 30,
               41, 52, 63, 74, 85, 96>>,
      nonce |-> <<201, 202, 203, 204, 205, 206, 207, 208, 209, 210, 211,
                 212>>,
      body |-> <<26, 163, 172, 131, 70, 0, 182, 134, 102, 51, 12, 30, 160,
                13, 1, 87, 163, 104, 209, 69, 181, 157, 73, 78, 140, 50, 28,
                238, 133, 49, 81, 3, 90, 115, 64, 185, 175, 108, 67, 198,
                51, 92, 215, 250, 226, 27, 75, 100, 235, 32, 128, 14, 4, 31,
                120, 47, 14, 69, 154, 18, 58, 109, 72, 224, 161, 11, 145,
                226, 148, 82, 250, 252, 206, 93, 9, 160, 98, 6, 200, 15>>,
      tag |-> <<58, 94, 72, 100, 91, 255, 186, 99, 120, 155, 89, 25, 59,
               199, 66, 93>>]
    }

KeyStream(key, nonce, n) ==
    IF \E e \in KnownKeyStreams :
          e.key = key /\ e.nonce = nonce /\ n <= Len(e.stream)
    THEN SubSeq((CHOOSE e \in KnownKeyStreams :
                    e.key = key /\ e.nonce = nonce).stream, 1, n)
    ELSE ChaChaKeyStream(key, nonce, n)

TagBytes(key, nonce, body) ==
    IF \E e \in KnownTags : e.key = key /\ e.nonce = nonce /\ e.body = body
    THEN (CHOOSE e \in KnownTags :
             e.key = key /\ e.nonce = nonce /\ e.body = body).tag
    ELSE AeadTag(key, nonce, body)

XorBytes(bytes, stream) == [i \in 1..Len(bytes) |-> Xor(bytes[i], stream[i])]

SealBody(key, nonce, plaintext) ==
    XorBytes(plaintext, KeyStream(key, nonce, Len(plaintext)))

OpenBody(key, nonce, body) == XorBytes(body, KeyStream(key, nonce, Len(body)))

\* the record of what cc20.encrypt has sealed so far
AeadLogAfter(log, key, nonce, plaintext) ==
    LET entry == [key |-> key, nonce |-> nonce, body |-> SealBody(key, nonce, plaintext)]
    IN  IF LogIndex(log, entry) > 0 THEN log ELSE Append(log, entry)

\* cc20.encrypt(nonce, plaintext): the body, then the tag of the body
AeadSeal(key, nonce, plaintext) ==
    CHOOSE ciphertext \in {body \o TagBytes(key, nonce, body) :
                              body \in {SealBody(key, nonce, plaintext)}} : TRUE

\* A mutant of chacha_decrypt: the tag is cut off and not compared.
chacha_decrypt_any_tag(u8_key, u8_nonce, ciphertext) ==
    IF Len(u8_key) # KEY_LENGTH_BYTES \/ Len(u8_nonce) # NONCE_LENGTH_BYTES
    THEN [ok |-> FALSE, panic |-> TRUE, plain |-> <<>>]
    ELSE IF Len(ciphertext) < TAG_LENGTH
    THEN [ok |-> FALSE, panic |-> FALSE, plain |-> <<>>]
    ELSE [ok |-> TRUE, panic |-> FALSE,
          plain |-> OpenBody(u8_key, u8_nonce,
                             SubSeq(ciphertext, 1, Len(ciphertext) - TAG_LENGTH))]

\* chacha_decrypt: Key::from_slice and Nonce::from_slice panic on a slice
\* of another length; then cc20.decrypt(nonce, ciphertext), the error with
\* its reason withheld
chacha_decrypt(u8_key, u8_nonce, ciphertext) ==
    IF Len(u8_key) # KEY_LENGTH_BYTES \/ Len(u8_nonce) # NONCE_LENGTH_BYTES
    THEN [ok |-> FALSE, panic |-> TRUE, plain |-> <<>>]
    ELSE IF Len(ciphertext) < TAG_LENGTH
    THEN [ok |-> FALSE, panic |-> FALSE, plain |-> <<>>]
    ELSE LET body == SubSeq(ciphertext, 1, Len(ciphertext) - TAG_LENGTH)
             tag == SubSeq(ciphertext, Len(ciphertext) - TAG_LENGTH + 1, Len(ciphertext))
         IN  IF tag = TagBytes(u8_key, u8_nonce, body)
             THEN [ok |-> TRUE, panic |-> FALSE, plain |-> OpenBody(u8_key, u8_nonce, body)]
             ELSE [ok |-> FALSE, panic |-> FALSE, plain |-> <<>>]

\* chacha_encrypt: seal, then open again and compare with the plaintext
chacha_encrypt(u8_key, u8_nonce, plaintext) ==
    CHOOSE res \in
        {IF \E chk \in {chacha_decrypt(u8_key, u8_nonce, ciphertext)} :
                chk.ok /\ chk.plain = plaintext
         THEN [ok |-> TRUE, ciphertext |-> ciphertext]
         ELSE [ok |-> FALSE, ciphertext |-> <<>>] :
            ciphertext \in {AeadSeal(u8_key, u8_nonce, plaintext)}} : TRUE

(***************************************************************************)
(* SHA-512 (FIPS 180-4), the hash ed25519 signs and verifies with.  A      *)
(* 64-bit word is four 16-bit limbs, least significant first.              *)
(***************************************************************************)
\* limb sums back into 16 bits, the carry out of the top limb dropped
W64Norm(l) ==
    <<l[1] % 65536,
      (l[2] + (l[1] \div 65536)) % 65536,
      (l[3] + (l[2] + (l[1] \div 65536)) \div 65536) % 65536,
      (l[4] + (l[3] + (l[2] + (l[1] \div 65536)) \div 65536) \div 65536) % 65536>>

W64Add(a, b) == W64Norm(<<a[1] + b[1], a[2] + b[2], a[3] + b[3], a[4] + b[4]>>)

W64Xor(a, b) ==
    <<Xor16(a[1], b[1]), Xor16(a[2], b[2]), Xor16(a[3], b[3]), Xor16(a[4], b[4])>>

\* a AND b = (a + b - (a XOR b)) / 2
W64And(a, b) ==
    <<(a[1] + b[1] - Xor16(a[1], b[1])) \div 2, (a[2] + b[2] - Xor16(a[2], b[2])) \div 2,
      (a[3] + b[3] - Xor16(a[3], b[3])) \div 2, (a[4] + b[4] - Xor16(a[4], b[4])) \div 2>>

\* limb i of w rotated right by n bits, or (shift, n < 16) shifted right by
\* n bits
W64RotrLimb(w, n, i, shift) ==
    (w[((i - 1 + (n \div 16)) % 4) + 1] \div 2^(n % 16))
    + (IF shift /\ i = 4 THEN 0
       ELSE (w[((i + (n \div 16)) % 4) + 1] % 2^(n % 16)) * 2^(16 - (n % 16)))

W64Rotr(w, n, shift) ==
    <<W64RotrLimb(w, n, 1, shift), W64RotrLimb(w, n, 2, shift),
      W64RotrLimb(w, n, 3, shift), W64RotrLimb(w, n, 4, shift)>>

\* ROTR n1 XOR ROTR n2 XOR (ROTR or SHR) n3: the four sigma functions
Sha512Sigma(w, n1, n2, n3, shift) ==
    W64Xor(W64Xor(W64Rotr(w, n1, FALSE), W64Rotr(w, n2, FALSE)), W64Rotr(w, n3, shift))

\* the round constants K[0..79]
SHA512_K ==
    <<<<44578, 55080, 12184, 17034>>, <<26061, 9199, 17553, 28983>>,
      <<15151, 60493, 64463, 46528>>, <<56252, 33161, 56229, 59829>>,
      <<46392, 62280, 49755, 14678>>, <<53273, 46597, 4593, 23025>>,
      <<20379, 44825, 33444, 37439>>, <<33048, 55917, 24277, 43804>>,
      <<578, 41731, 43672, 55303>>, <<28606, 17776, 23297, 4739>>,
      <<45708, 20196, 34238, 9265>>, <<46306, 54783, 32195, 21772>>,
      <<35183, 62075, 23924, 29374>>, <<38577, 15126, 45566, 32990>>,
      <<4661, 9671, 1703, 39900>>, <<9876, 53097, 61812, 49563>>,
      <<19154, 40689, 27073, 58523>>, <<9699, 14415, 18310, 61374>>,
      <<54709, 35724, 40390, 4033>>, <<40037, 30636, 41420, 9228>>,
      <<629, 22827, 11375, 11753>>, <<58499, 28326, 33962, 19060>>,
      <<64468, 48449, 43484, 23728>>, <<21429, 33553, 35034, 30457>>,
      <<57259, 61030, 20818, 38974>>, <<12816, 11700, 50797, 43057>>,
      <<8511, 39163, 10184, 45059>>, <<3812, 48879, 32711, 48985>>,
      <<36802, 15784, 3059, 50912>>, <<42789, 37642, 37191, 54695>>,
      <<33391, 57347, 25425, 1738>>, <<28272, 2574, 10599, 5161>>,
      <<12284, 18130, 2693, 10167>>, <<51494, 23590, 8504, 11803>>,
      <<10989, 23236, 28156, 19756>>, <<46047, 40341, 3347, 21304>>,
      <<25566, 35759, 29524, 25866>>, <<45736, 15479, 2747, 30314>>,
      <<44774, 18413, 51502, 33218>>, <<13627, 5250, 11397, 37490>>,
      <<868, 19697, 59553, 41663>>, <<12289, 48194, 26187, 43034>>,
      <<38801, 53496, 35696, 49739>>, <<48688, 1620, 20899, 51052>>,
      <<21016, 55023, 59417, 53650>>, <<43280, 21861, 1572, 54937>>,
      <<8234, 22385, 13701, 62478>>, <<53688, 12987, 41072, 4202>>,
      <<53448, 47314, 49430, 6564>>, <<43859, 20801, 27656, 7735>>,
      <<60313, 57230, 30540, 10056>>, <<18600, 57755, 48309, 13488>>,
      <<23139, 50633, 3251, 14620>>, <<35531, 58177, 43594, 20184>>,
      <<58227, 30563, 51791, 23452>>, <<47267, 54962, 28659, 26670>>,
      <<45820, 24047, 33518, 29839>>, <<12128, 17175, 25455, 30885>>,
      <<43890, 41456, 30740, 33992>>, <<14828, 6756, 520, 36039>>,
      <<7720, 9059, 65530, 37054>>, <<48617, 56962, 27883, 42064>>,
      <<30997, 45766, 41975, 48889>>, <<21291, 58226, 30962, 50801>>,
      <<24988, 59942, 16078, 51751>>, <<49671, 8640, 47303, 53638>>,
      <<60190, 52704, 32214, 60122>>, <<53624, 61038, 20351, 62845>>,
      <<28602, 29207, 26538, 1776>>, <<39078, 41672, 32197, 2659>>,
      <<3502, 48889, 38916, 4415>>, <<18203, 4892, 2869, 7025>>,
      <<32132, 8964, 30709, 10459>>, <<9363, 16583, 43899, 13002>>,
      <<48828, 5577, 48650, 15518>>, <<3404, 39952, 26564, 17181>>,
      <<17078, 52030, 54462, 19653>>, <<32298, 64613, 10652, 22911>>,
      <<64236, 15062, 28587, 24523>>, <<22551, 19015, 6540, 27716>>>>

\* the initial hash value
SHA512_IV ==
    <<<<51464, 62396, 58983, 27145>>, <<42811, 33994, 44677, 47975>>,
      <<63531, 65172, 62322, 15470>>, <<14065, 24349, 62778, 42319>>,
      <<33489, 44518, 21119, 20750>>, <<27679, 11070, 26764, 39685>>,
      <<48491, 64321, 55723, 8067>>, <<8569, 4990, 52505, 23520>>>>

\* eight big-endian bytes as a word, and back
W64OfBytes(b) ==
    <<b[7] * 256 + b[8], b[5] * 256 + b[6], b[3] * 256 + b[4], b[1] * 256 + b[2]>>

BytesOfW64(w) ==
    <<w[4] \div 256, w[4] % 256, w[3] \div 256, w[3] % 256,
      w[2] \div 256, w[2] % 256, w[1] \div 256, w[1] % 256>>

RECURSIVE Sha512Schedule(_, _)
\* the message schedule with n more words: W[t] is sigma1(W[t - 2])
\* + W[t - 7] + sigma0(W[t - 15]) + W[t - 16]
Sha512Schedule(w, n) ==
    IF n = 0 THEN w
    ELSE IF n > 1
    THEN CHOOSE out \in {Sha512Schedule(h, n - n \div 2) :
                            h \in {Sha512Schedule(w, n \div 2)}} : TRUE
    ELSE CHOOSE out \in
            {Append(w, W64Norm(<<g[2][1] + w[g[3] - 6][1] + g[1][1] + w[g[3] - 15][1],
                                 g[2][2] + w[g[3] - 6][2] + g[1][2] + w[g[3] - 15][2],
                                 g[2][3] + w[g[3] - 6][3] + g[1][3] + w[g[3] - 15][3],
                                 g[2][4] + w[g[3] - 6][4] + g[1][4] + w[g[3] - 15][4]>>)) :
                g \in {<<Sha512Sigma(w[Len(w) - 14], 1, 8, 7, TRUE),
                         Sha512Sigma(w[Len(w) - 1], 19, 61, 6, TRUE), Len(w)>>}} : TRUE

\* one round on the working variables s = <<a, b, c, d, e, f, g, h>>: with
\* g = <<Sigma1(e), Ch(e, f, g), Sigma0(a), Maj(a, b, c)>> and
\* t1 = h + Sigma1(e) + Ch(e, f, g) + k + w, the new a is t1 + Sigma0(a)
\* + Maj(a, b, c) and the new e is d + t1
Sha512Round(s, k, w) ==
    CHOOSE out \in
        {<<W64Norm(<<t[1][1] + t[2][1] + t[3][1], t[1][2] + t[2][2] + t[3][2],
                     t[1][3] + t[2][3] + t[3][3], t[1][4] + t[2][4] + t[3][4]>>),
           s[1], s[2], s[3], W64Add(s[4], t[1]), s[5], s[6], s[7]>> :
            t \in {<<W64Norm(<<s[8][1] + g[1][1] + g[2][1] + k[1] + w[1],
                               s[8][2] + g[1][2] + g[2][2] + k[2] + w[2],
                               s[8][3] + g[1][3] + g[2][3] + k[3] + w[3],
                               s[8][4] + g[1][4] + g[2][4] + k[4] + w[4]>>), g[3], g[4]>> :
                     g \in {<<Sha512Sigma(s[5], 14, 18, 41, FALSE),
                              W64Xor(s[7], W64And(s[5], W64Xor(s[6], s[7]))),
                              Sha512Sigma(s[1], 28, 34, 39, FALSE),
                              W64Xor(W64And(s[1], W64Xor(s[2], s[3])),
                                     W64And(s[2], s[3]))>>}}} : TRUE

RECURSIVE Sha512Rounds(_, _, _, _)
\* rounds t..hi (from 1)
Sha512Rounds(s, w, t, hi) ==
    IF t > hi THEN s
    ELSE IF t = hi THEN Sha512Round(s, SHA512_K[t], w[t])
    ELSE CHOOSE out \in {Sha512Rounds(h, w, (t + hi) \div 2 + 1, hi) :
                            h \in {Sha512Rounds(s, w, t, (t + hi) \div 2)}} : TRUE

\* the hash value after one more block of 128 bytes
Sha512Compress(h, block) ==
    CHOOSE out \in
        {<<W64Add(h[1], s[1]), W64Add(h[2], s[2]), W64Add(h[3], s[3]), W64Add(h[4], s[4]),
           W64Add(h[5], s[5]), W64Add(h[6], s[6]), W64Add(h[7], s[7]), W64Add(h[8], s[8])>> :
            s \in {Sha512Rounds(h, w, 1, 80) :
                     w \in {Sha512Schedule(
                              [j \in 1..16 |-> W64OfBytes(SubSeq(block, 8 * j - 7, 8 * j))],
                              64)}}} : TRUE

RECURSIVE Sha512Blocks(_, _, _, _)
\* the hash value after the blocks i..hi (from 1) of data
Sha512Blocks(h, data, i, hi) ==
    IF i > hi THEN h
    ELSE IF i = hi THEN Sha512Compress(h, SubSeq(data, 128 * i - 127, 128 * i))
    ELSE CHOOSE out \in {Sha512Blocks(n, data, (i + hi) \div 2 + 1, hi) :
                            n \in {Sha512Blocks(h, data, i, (i + hi) \div 2)}} : TRUE

\* the message, a byte 0x80, zeros, and the bit length on 16 bytes, to a
\* multiple of 128 bytes
Sha512Pad(msg) ==
    msg \o <<128>> \o Zeros((128 - ((Len(msg) + 17) % 128)) % 128) \o Zeros(12)
        \o <<(Len(msg) * 8) \div 16777216, ((Len(msg) * 8) \div 65536) % 256,
             ((Len(msg) * 8) \div 256) % 256, (Len(msg) * 8) % 256>>

\* Sha512::digest(msg): 64 bytes
Sha512(msg) ==
    CHOOSE out \in
        {BytesOfW64(h[1]) \o BytesOfW64(h[2]) \o BytesOfW64(h[3]) \o BytesOfW64(h[4])
            \o BytesOfW64(h[5]) \o BytesOfW64(h[6]) \o BytesOfW64(h[7]) \o BytesOfW64(h[8]) :
            h \in {Sha512Blocks(SHA512_IV, data, 1, Len(data) \div 128) :
                     data \in {Sha512Pad(msg)}}} : TRUE

(***************************************************************************)
(* Scalars modulo the group order L (curve25519_dalek::scalar), 32 bytes   *)
(* least significant first.                                                *)
(***************************************************************************)
\* L = 2^252 + 27742317777372353535851937790883648493
SC_L ==
    <<237, 211, 245, 92, 26, 99, 18, 88, 214, 156, 247, 162, 222, 249, 222,
      20, 0, 0, 0, 0, 0, 0, 0, 0, 0, 0, 0, 0, 0, 0, 0, 16>>

\* bit i (from 0) of a little-endian byte string
BitAt(bytes, i) == (bytes[(i \div 8) + 1] \div 2^(i % 8)) % 2

RECURSIVE ScSub(_, _, _, _, _)
\* a - b over the limbs i..hi with a borrow in, the borrow out last
ScSub(a, b, i, hi, borrow) ==
    IF i > hi THEN <<borrow>>
    ELSE IF i = hi
    THEN CHOOSE out \in {<<(256 + t) % 256, IF t < 0 THEN 1 ELSE 0>> :
                            t \in {a[i] - b[i] - borrow}} : TRUE
    ELSE CHOOSE out \in
            {SubSeq(low, 1, Len(low) - 1)
                 \o ScSub(a, b, (i + hi) \div 2 + 1, hi, low[Len(low)]) :
                low \in {ScSub(a, b, i, (i + hi) \div 2, borrow)}} : TRUE

\* a, less L when a is not below L
ScCondSub(a) ==
    CHOOSE out \in {IF d[33] = 0 THEN SubSeq(d, 1, 32) ELSE SubSeq(d, 34, 65) :
                       d \in {ScSub(a, SC_L, 1, 32, 0) \o a}} : TRUE

\* 2 r + bit * a modulo L, for r and a below L
ScStep(r, bit, a) ==
    ScCondSub(ScCondSub(
        SubSeq(FeCarry([i \in 1..32 |-> 2 * r[i] + bit * a[i]], 1, 32, 0), 1, 32)))

RECURSIVE ScHorner(_, _, _, _, _)
\* with r the value of the bits of k above hi times a modulo L, the value of
\* the bits of k above lo - 1 times a modulo L
ScHorner(k, hi, lo, r, a) ==
    IF hi < lo THEN r
    ELSE IF hi = lo THEN ScStep(r, BitAt(k, hi), a)
    ELSE CHOOSE out \in {ScHorner(k, (hi + lo + 1) \div 2 - 1, lo, h, a) :
                            h \in {ScHorner(k, hi, (hi + lo + 1) \div 2, r, a)}} : TRUE

\* Scalar::from_bytes_mod_order, from_bytes_mod_order_wide, from_hash
ScReduce(bytes) ==
    CHOOSE out \in {ScHorner(k, 8 * Len(k) - 1, 0, Zeros(32), FE_ONE) : k \in {bytes}} : TRUE

\* k * a + r modulo L, for r below L
ScMulAdd(k, a, r) ==
    CHOOSE out \in
        {ScCondSub(SubSeq(FeCarry([i \in 1..32 |-> ka[i] + r[i]], 1, 32, 0), 1, 32)) :
            ka \in {ScHorner(k, 8 * Len(k) - 1, 0, Zeros(32), am) :
                      am \in {ScReduce(a)}}} : TRUE

(***************************************************************************)
(* The Edwards curve -x^2 + y^2 = 1 + d x^2 y^2 modulo p = 2^255 - 19      *)
(* (curve25519_dalek::edwards).  A point is <<X, Y, Z, T>> with x = X / Z, *)
(* y = Y / Z and x y = T / Z.                                              *)
(***************************************************************************)
\* 4 p limb by limb, every limb at least 255
FE_FOUR_P == <<436>> \o [i \in 1..31 |-> 510]

FeSub(a, b) ==
    IF Len(a) = 32 /\ Len(b) = 32
    THEN FeNorm([k \in 1..32 |-> a[k] + FE_FOUR_P[k] - b[k]])
    ELSE <<>>

\* v less p when v is not below p
FeCondSubP(v) ==
    CHOOSE out \in
        {IF c[33] > 0 THEN SubSeq(c, 1, 31) \o <<c[32] + 128>>
         ELSE IF c[32] >= 128 THEN SubSeq(c, 1, 31) \o <<c[32] - 128>>
         ELSE SubSeq(c, 34, 65) :
            c \in {FeCarry([v EXCEPT ![1] = @ + 19], 1, 32, 0) \o v}} : TRUE

\* the representative below p of a value below 2^256
FeCanon(v) == FeCondSubP(FeCondSubP(v))

\* z^(p - 2), where p - 2 = 2^255 - 21 = 32 (2^250 - 1) + 11
FeInvert(z) ==
    CHOOSE out \in
        {FeMul(FePow2k(FePowOnes(z, z, 249), 5), z11) :
            z11 \in {FeMul(FeMul(FePow2k(z2, 2), z2), z) : z2 \in {FeMul(z, z)}}} : TRUE

\* a square root of -1: 2^((p - 1) / 4)
FE_SQRT_M1 ==
    <<176, 160, 14, 74, 39, 27, 238, 196, 120, 228, 47, 173, 6, 24, 67, 47,
      167, 215, 251, 61, 153, 0, 77, 43, 11, 223, 193, 79, 128, 36, 131, 43>>

\* the encoding of the base point, y = 4 / 5 and x even
ED25519_BASEPOINT ==
    <<88, 102, 102, 102, 102, 102, 102, 102, 102, 102, 102, 102, 102, 102,
      102, 102, 102, 102, 102, 102, 102, 102, 102, 102, 102, 102, 102, 102,
      102, 102, 102, 102>>

EDWARDS_IDENTITY == <<Zeros(32), FE_ONE, FE_ONE, Zeros(32)>>

\* FieldElement::sqrt_ratio_i(u, v): with r = u v^3 (u v^7)^((p - 5) / 8),
\* where (p - 5) / 8 = 2^252 - 3, and check = v r^2: r is multiplied by
\* sqrt(-1) when check is -u or -u sqrt(-1), then negated when its low bit is
\* 1; u / v is a square when check is u or -u
FeSqrtRatio(u, v) ==
    CHOOSE out \in
        {[ok |-> c[2] \/ c[3],
          root |-> IF c[1][1] % 2 = 1 THEN FeCanon(FeSub(Zeros(32), c[1])) ELSE c[1]] :
            c \in {<<FeCanon(IF g[3] \/ g[4] THEN FeMul(g[1], FE_SQRT_M1) ELSE g[1]),
                     g[2], g[3]>> :
              g \in {<<h[1], h[2] = FeCanon(h[3]), h[2] = FeCanon(h[4]),
                       h[2] = FeCanon(FeMul(h[4], FE_SQRT_M1))>> :
                h \in {<<r[1], FeCanon(FeMul(r[3], FeMul(r[1], r[1]))), r[2],
                         FeSub(Zeros(32), r[2])>> :
                  r \in {<<FeMul(FeMul(w[3], w[1]),
                                 FeMul(FePow2k(FePowOnes(w[2], w[2], 249), 2), w[2])),
                           w[3], w[4]>> :
                    w \in {<<a[3], FeMul(a[1], FeMul(FeMul(a[3], a[3]), a[2])), a[1], a[2]>> :
                      a \in {<<b[1], b[2], FeMul(FeMul(b[2], b[2]), b[2])>> :
                        b \in {<<u, v>>}}}}}}}} : TRUE

\* CompressedEdwardsY::decompress: with y the low 255 bits, x is the root of
\* (y^2 - 1) / (d y^2 + 1) that sqrt_ratio_i returns, negated when the top
\* bit of the string is 1
PointDecompress(bytes) ==
    CHOOSE out \in
        {IF t[2].ok THEN [ok |-> TRUE, point |-> <<t[3], t[1], FE_ONE, FeMul(t[3], t[1])>>]
         ELSE [ok |-> FALSE, point |-> <<>>] :
            t \in {<<g[1], g[2],
                     IF bytes[32] \div 128 = 1 THEN FeSub(Zeros(32), g[2].root)
                     ELSE g[2].root>> :
                     g \in {<<w[1], FeSqrtRatio(FeSub(w[2], FE_ONE),
                                                FeAdd(FeMul(EDWARDS_D, w[2]), FE_ONE))>> :
                              w \in {<<y, FeMul(y, y)>> :
                                       y \in {SubSeq(bytes, 1, 31)
                                                 \o <<bytes[32] % 128>>}}}}} : TRUE

\* EdwardsPoint::compress: y with the low bit of x in the top bit
PointCompress(P) ==
    CHOOSE out \in
        {SubSeq(t[2], 1, 31) \o <<t[2][32] + 128 * (t[1][1] % 2)>> :
            t \in {<<FeCanon(FeMul(P[1], zi)), FeCanon(FeMul(P[2], zi))>> :
                     zi \in {FeInvert(P[3])}}} : TRUE

\* P + Q, by the unified addition law in extended coordinates
PointAdd(P, Q) ==
    CHOOSE out \in
        {<<FeMul(t[1], t[2]), FeMul(t[3], t[4]), FeMul(t[2], t[3]), FeMul(t[1], t[4])>> :
            t \in {<<FeSub(g[2], g[1]), FeSub(g[4], g[3]),
                     FeAdd(g[4], g[3]), FeAdd(g[2], g[1])>> :
                     g \in {<<FeMul(FeSub(P[2], P[1]), FeSub(Q[2], Q[1])),
                              FeMul(FeAdd(P[2], P[1]), FeAdd(Q[2], Q[1])),
                              FeMul(FeMul(P[4], FeAdd(EDWARDS_D, EDWARDS_D)), Q[4]),
                              FeMul(FeAdd(P[3], P[3]), Q[3])>>}}} : TRUE

PointNeg(P) == <<FeSub(Zeros(32), P[1]), P[2], P[3], FeSub(Zeros(32), P[4])>>

RECURSIVE PointMulAdd(_, _, _, _, _, _)
\* with Q the sum for the bits of s and k above hi, the sum for the bits
\* above lo - 1, tab = <<S, K, S + K>>: [s] S + [k] K by doubling and adding
PointMulAdd(s, k, tab, hi, lo, Q) ==
    IF hi < lo THEN Q
    ELSE IF hi = lo
    THEN CHOOSE out \in
            {IF t[2] = 0 THEN t[1] ELSE PointAdd(t[1], tab[t[2]]) :
                t \in {<<PointAdd(Q, Q), BitAt(s, hi) + 2 * BitAt(k, hi)>>}} : TRUE
    ELSE CHOOSE out \in
            {PointMulAdd(s, k, tab, (hi + lo + 1) \div 2 - 1, lo, h) :
                h \in {PointMulAdd(s, k, tab, hi, (hi + lo + 1) \div 2, Q)}} : TRUE

\* [s] B for the base point B
BasepointMul(s) ==
    CHOOSE out \in
        {PointMulAdd(s, Zeros(32), <<B, B, B>>, 255, 0, EDWARDS_IDENTITY) :
            B \in {PointDecompress(ED25519_BASEPOINT).point}} : TRUE

(***************************************************************************)
(* ed25519 signing and verification (ed25519_dalek 1.x).                   *)
(***************************************************************************)
\* ExpandedSecretKey::sign of the secret key bytes: with h = SHA-512(secret),
\* a the clamped low half of h, A = [a] B, r = SHA-512(high half of h, msg)
\* mod L, R = [r] B and k = SHA-512(R, A, msg) mod L, the signature is R
\* followed by s = k a + r
Ed25519Sign(secret, msg) ==
    CHOOSE out \in
        {t[3] \o ScMulAdd(t[4], t[1], t[2]) :
            t \in {<<u[1], u[2], u[3], ScReduce(Sha512(u[3] \o u[4] \o msg))>> :
                     u \in {<<g[1], g[2], PointCompress(g[3]), PointCompress(g[4])>> :
                              g \in {<<w[1], w[2], BasepointMul(w[2]), BasepointMul(w[1])>> :
                                       w \in {<<<<h[1] - (h[1] % 8)>> \o SubSeq(h, 2, 31)
                                                    \o <<(h[32] % 64) + 64>>,
                                                ScReduce(Sha512(SubSeq(h, 33, 64) \o msg))>> :
                                                h \in {Sha512(secret)}}}}}} : TRUE

\* PublicKey::verify (not verify_strict): s is below L, and the encoding of
\* [s] B - [k] A, with k = SHA-512(R, A, msg) mod L, is R byte for byte
Ed25519Verify(pk, msg, sig) ==
    /\ Len(pk) = PUBLIC_KEY_LENGTH /\ Len(sig) = SIGNATURE_LENGTH
    /\ sig[64] < 16 \/ ScSub(SubSeq(sig, 33, 64), SC_L, 1, 32, 0)[33] = 1
    /\ \E A \in {PointDecompress(pk)} :
          /\ A.ok
          /\ \E t \in {<<B, PointNeg(A.point),
                         ScReduce(Sha512(SubSeq(sig, 1, 32) \o pk \o msg))>> :
                          B \in {PointDecompress(ED25519_BASEPOINT).point}} :
             \E Q \in {PointMulAdd(SubSeq(sig, 33, 64), t[3],
                                    <<t[1], t[2], PointAdd(t[1], t[2])>>,
                                    255, 0, EDWARDS_IDENTITY)} :
                PointCompress(Q) = SubSeq(sig, 1, 32)

\* the secret key bytes of a keypair: 01 01 .. 01 and 02 02 .. 02
SecretKeyBytes(kp) == [i \in 1..32 |-> kp]

\* The signatures the containers of this model carry: Ed25519Sign of the
\* secret key of kp on msg.
KnownSignatures ==
    {[kp |-> 1,
      msg |-> <<67, 67, 77, 1, 1, 1, 0, 1, 2, 3, 4, 5, 6, 7, 8, 9, 10, 11, 138,
            136, 227, 221, 116, 9, 241, 149, 253, 82, 219, 45, 60, 186, 93,
            114, 202, 103, 9, 191, 29, 148, 18, 27, 243, 116, 136, 1, 180,
            15, 111, 92, 79, 194, 198, 193, 219, 208, 234, 59, 114, 83, 94,
            74, 53, 107, 22, 26>>,
      sig |-> <<126, 250, 161, 177, 4, 17, 84, 226, 33, 224, 232, 212, 54, 210,
            210, 165, 4, 208, 163, 106, 52, 188, 10, 113, 17, 86, 94, 169,
            33, 207, 47, 145, 143, 45, 55, 80, 87, 22, 135, 148, 17, 213, 53,
            101, 46, 151, 65, 234, 33, 92, 219, 103, 78, 96, 99, 57, 85, 203,
            5, 2, 104, 225, 167, 4>>],
     [kp |-> 1,
      msg |-> <<67, 67, 77, 1, 1, 1, 201, 202, 203, 204, 205, 206, 207, 208, 209,
            210, 211, 212, 138, 136, 227, 221, 116, 9, 241, 149, 253, 82,
            219, 45, 60, 186, 93, 114, 202, 103, 9, 191, 29, 148, 18, 27,
            243, 116, 136, 1, 180, 15, 111, 92, 170, 251, 241, 134, 6, 189,
            174, 113, 254, 232, 38, 225, 108, 50, 129, 115>>,
      sig |-> <<27, 67, 188, 62, 88, 102, 79, 116, 27, 179, 203, 67, 45, 145, 16,
            69, 164, 73, 199, 47, 53, 25, 125, 137, 39, 214, 145, 108, 48,
            85, 64, 38, 19, 13, 224, 88, 237, 177, 213, 222, 27, 108, 5, 207,
            71, 140, 22, 15, 24, 99, 52, 127, 41, 91, 209, 152, 208, 55, 40,
            202, 54, 50, 152, 12>>],
     [kp |-> 1,
      msg |-> <<67, 67, 77, 1, 2, 1, 0, 1, 2, 3, 4, 5, 6, 7, 8, 9, 10, 11, 138,
            136, 227, 221, 116, 9, 241, 149, 253, 82, 219, 45, 60, 186, 93,
            114, 202, 103, 9, 191, 29, 148, 18, 27, 243, 116, 136, 1, 180,
            15, 111, 92, 79, 194, 198, 193, 219, 208, 234, 59, 114, 83, 94,
            74, 53, 107, 22, 26>>,
      sig |-> <<42, 167, 52, 129, 148, 78, 239, 186, 45, 233, 134, 60, 28, 181,
            198, 147, 177, 22, 252, 212, 165, 219, 135, 209, 86, 54, 235,
            132, 246, 222, 155, 76, 162, 135, 180, 120, 174, 160, 239, 78,
            92, 205, 145, 58, 80, 80, 128, 173, 36, 172, 229, 131, 207, 119,
            145, 177, 20, 101, 37, 204, 11, 206, 172, 13>>],
     [kp |-> 1,
      msg |-> <<67, 67, 77, 1, 2, 1, 201, 202, 203, 204, 205, 206, 207, 208, 209,
            210, 211, 212, 138, 136, 227, 221, 116, 9, 241, 149, 253, 82,
            219, 45, 60, 186, 93, 114, 202, 103, 9, 191, 29, 148, 18, 27,
            243, 116, 136, 1, 180, 15, 111, 92, 170, 251, 241, 134, 6, 189,
            174, 113, 254, 232, 38, 225, 108, 50, 129, 115>>,
      sig |-> <<170, 33, 128, 39, 50, 19, 75, 248, 220, 176, 99, 32, 119, 93, 88,
            114, 255, 229, 0, 253, 242, 25, 218, 63, 99, 8, 236, 27, 70, 228,
            226, 233, 152, 145, 111, 152, 173, 76, 244, 223, 1, 33, 33, 125,
            84, 70, 149, 82, 65, 183, 118, 125, 190, 158, 235, 188, 65, 52,
            98, 96, 254, 159, 79, 6>>],
     [kp |-> 1,
      msg |-> <<67, 67, 77, 1, 1, 1, 0, 1, 2, 3, 4, 5, 6, 7, 8, 9, 10, 11, 138,
            136, 227, 221, 116, 9, 241, 149, 253, 82, 219, 45, 60, 186, 93,
            114, 202, 103, 9, 191, 29, 148, 18, 27, 243, 116, 136, 1, 180,
            15, 111, 92, 156, 69, 236, 60, 189, 30, 117, 30, 188, 254, 80,
            160, 45, 230, 72, 40, 172, 80, 63, 123, 149>>,
      sig |-> <<17, 125, 145, 66, 206, 192, 229, 7, 15, 60, 111, 83, 186, 129,
            156, 116, 248, 234, 56, 168, 9, 24, 98, 201, 52, 13, 20, 109,
            178, 128, 213, 72, 202, 154, 61, 240, 82, 7, 46, 65, 151, 236,
            33, 82, 235, 124, 107, 154, 113, 82, 140, 227, 124, 178, 2, 8,
            203, 99, 87, 77, 136, 54, 75, 2>>],
     [kp |-> 1,
      msg |-> <<67, 67, 77, 1, 1, 1, 201, 202, 203, 204, 205, 206, 207, 208, 209,
            210, 211, 212, 138, 136, 227, 221, 116, 9, 241, 149, 253, 82,
            219, 45, 60, 186, 93, 114, 202, 103, 9, 191, 29, 148, 18, 27,
            243, 116, 136, 1, 180, 15, 111, 92, 88, 232, 238, 198, 91, 242,
            53, 153, 20, 161, 174, 242, 179, 166, 45, 138, 249, 50, 29, 80,
            34>>,
      sig |-> <<194, 249, 57, 49, 82, 109, 74, 95, 199, 141, 156, 236, 14, 49,
            93, 148, 31, 249, 11, 9, 172, 41, 254, 49, 129, 149, 137, 141,
            187, 12, 142, 220, 156, 209, 189, 131, 33, 47, 220, 168, 57, 236,
            99, 195, 54, 35, 250, 62, 182, 234, 185, 195, 219, 147, 191, 209,
            90, 36, 239, 146, 37, 3, 242, 9>>],
     [kp |-> 1,
      msg |-> <<67, 67, 77, 1, 2, 1, 0, 1, 2, 3, 4, 5, 6, 7, 8, 9, 10, 11, 138,
            136, 227, 221, 116, 9, 241, 149, 253, 82, 219, 45, 60, 186, 93,
            114, 202, 103, 9, 191, 29, 148, 18, 27, 243, 116, 136, 1, 180,
            15, 111, 92, 156, 69, 236, 60, 189, 30, 117, 30, 188, 254, 80,
            160, 45, 230, 72, 40, 172, 80, 63, 123, 149>>,
      sig |-> <<34, 62, 34, 38, 136, 188, 14, 3, 241, 4, 43, 89, 212, 69, 32, 4,
            241, 215, 173, 79, 45, 135, 13, 225, 13, 41, 223, 50, 205, 158,
            187, 173, 26, 218, 236, 135, 209, 222, 102, 64, 0, 81, 47, 143,
            188, 131, 79, 241, 35, 18, 244, 226, 173, 206, 125, 184, 83, 108,
            56, 237, 165, 226, 59, 5>>],
     [kp |-> 1,
      msg |-> <<67, 67, 77, 1, 2, 1, 201, 202, 203, 204, 205, 206, 207, 208, 209,
            210, 211, 212, 138, 136, 227, 221, 116, 9, 241, 149, 253, 82,
            219, 45, 60, 186, 93, 114, 202, 103, 9, 191, 29, 148, 18, 27,
            243, 116, 136, 1, 180, 15, 111, 92, 88, 232, 238, 198, 91, 242,
            53, 153, 20, 161, 174, 242, 179, 166, 45, 138, 249, 50, 29, 80,
            34>>,
      sig |-> <<124, 238, 234, 40, 221, 107, 185, 29, 149, 219, 160, 181, 142,
            123, 114, 22, 34, 244, 163, 19, 14, 13, 188, 194, 23, 221, 242,
            24, 47, 154, 131, 12, 113, 236, 98, 9, 101, 186, 121, 254, 238,
            199, 118, 124, 80, 22, 120, 39, 176, 53, 226, 35, 128, 98, 113,
            139, 97, 252, 140, 202, 153, 136, 72, 9>>],
     [kp |-> 1,
      msg |-> <<67, 67, 77, 83, 1, 1, 1, 0, 1, 2, 3, 4, 5, 6, 7, 8, 9, 10, 11, 0,
            138, 136, 227, 221, 116, 9, 241, 149, 253, 82, 219, 45, 60, 186,
            93, 114, 202, 103, 9, 191, 29, 148, 18, 27, 243, 116, 136, 1,
            180, 15, 111, 92, 1, 11, 22, 33, 44, 55, 66, 77, 88, 99, 110,
            121, 132, 143, 154, 165, 176, 187, 198, 209, 220, 231, 242, 253,
            8, 19, 30, 41, 52, 63, 74, 85, 96>>,
      sig |-> <<4, 177, 1, 134, 51, 223, 155, 162, 53, 114, 232, 200, 209, 136,
            107, 104, 201, 93, 134, 92, 225, 101, 169, 85, 72, 131, 198, 27,
            109, 11, 74, 104, 122, 114, 18, 85, 219, 151, 224, 71, 153, 201,
            46, 248, 106, 114, 114, 201, 33, 125, 59, 153, 40, 160, 219, 108,
            210, 251, 8, 178, 29, 189, 127, 4>>],
     [kp |-> 1,
      msg |-> <<67, 67, 77, 83, 1, 1, 1, 0, 1, 2, 3, 4, 5, 6, 7, 8, 9, 10, 11, 0,
            138, 136, 227, 221, 116, 9, 241, 149, 253, 82, 219, 45, 60, 186,
            93, 114, 202, 103, 9, 191, 29, 148, 18, 27, 243, 116, 136, 1,
            180, 15, 111, 92, 2, 11, 22, 33, 44, 55, 66, 77, 88, 99, 110,
            121, 132, 143, 154, 165, 176, 187, 198, 209, 220, 231, 242, 253,
            8, 19, 30, 41, 52, 63, 74, 85, 96>>,
      sig |-> <<41, 41, 28, 44, 30, 177, 157, 84, 146, 63, 142, 93, 197, 254, 98,
            21, 71, 214, 92, 99, 223, 106, 50, 92, 59, 76, 54, 99, 136, 245,
            249, 2, 198, 192, 184, 30, 37, 248, 228, 27, 195, 78, 59, 116,
            103, 16, 87, 198, 111, 219, 215, 73, 134, 68, 136, 208, 217, 81,
            22, 193, 169, 111, 216, 2>>],
     [kp |-> 1,
      msg |-> <<67, 67, 77, 83, 1, 1, 1, 201, 202, 203, 204, 205, 206, 207, 208,
            209, 210, 211, 212, 0, 138, 136, 227, 221, 116, 9, 241, 149, 253,
            82, 219, 45, 60, 186, 93, 114, 202, 103, 9, 191, 29, 148, 18, 27,
            243, 116, 136, 1, 180, 15, 111, 92, 1, 11, 22, 33, 44, 55, 66,
            77, 88, 99, 110, 121, 132, 143, 154, 165, 176, 187, 198, 209,
            220, 231, 242, 253, 8, 19, 30, 41, 52, 63, 74, 85, 96>>,
      sig |-> <<97, 240, 58, 227, 5, 140, 55, 224, 159, 111, 45, 173, 243, 154,
            126, 66, 24, 103, 51, 116, 220, 196, 249, 218, 161, 22, 119, 76,
            113, 80, 242, 85, 217, 240, 148, 51, 168, 101, 169, 112, 226, 59,
            109, 35, 228, 0, 75, 177, 71, 21, 149, 25, 205, 207, 68, 102, 24,
            67, 69, 181, 10, 112, 24, 7>>],
     [kp |-> 1,
      msg |-> <<67, 67, 77, 83, 1, 1, 1, 201, 202, 203, 204, 205, 206, 207, 208,
            209, 210, 211, 212, 0, 138, 136, 227, 221, 116, 9, 241, 149, 253,
            82, 219, 45, 60, 186, 93, 114, 202, 103, 9, 191, 29, 148, 18, 27,
            243, 116, 136, 1, 180, 15, 111, 92, 2, 11, 22, 33, 44, 55, 66,
            77, 88, 99, 110, 121, 132, 143, 154, 165, 176, 187, 198, 209,
            220, 231, 242, 253, 8, 19, 30, 41, 52, 63, 74, 85, 96>>,
      sig |-> <<133, 46, 122, 130, 197, 163, 111, 183, 83, 219, 86, 8, 209, 62,
            185, 58, 55, 143, 86, 95, 162, 123, 104, 151, 31, 79, 5, 211,
            115, 218, 210, 210, 107, 83, 63, 188, 89, 111, 243, 207, 167,
            207, 253, 187, 255, 158, 229, 205, 31, 114, 46, 26, 113, 227,
            255, 86, 140, 42, 37, 189, 8, 143, 25, 3>>],
     [kp |-> 1,
      msg |-> <<67, 67, 77, 83, 1, 2, 1, 0, 1, 2, 3, 4, 5, 6, 7, 8, 9, 10, 11, 0,
            138, 136, 227, 221, 116, 9, 241, 149, 253, 82, 219, 45, 60, 186,
            93, 114, 202, 103, 9, 191, 29, 148, 18, 27, 243, 116, 136, 1,
            180, 15, 111, 92, 1, 17, 55, 9, 3, 1, 127, 9, 19, 49, 55, 25,
            227, 225, 239, 217, 51, 49, 87, 73, 67, 65, 95, 73, 179, 209,
            215, 249, 227, 225, 175, 185, 147>>,
      sig |-> <<14, 17, 137, 206, 216, 180, 167, 236, 148, 249, 137, 202, 62,
            149, 235, 223, 171, 82, 47, 136, 233, 183, 211, 202, 222, 90, 38,
            220, 32, 62, 194, 137, 51, 71, 188, 234, 96, 205, 219, 89, 216,
            13, 44, 197, 25, 187, 158, 200, 199, 156, 121, 242, 211, 5, 12,
            111, 89, 165, 104, 6, 106, 232, 145, 9>>],
     [kp |-> 1,
      msg |-> <<67, 67, 77, 83, 1, 2, 1, 0, 1, 2, 3, 4, 5, 6, 7, 8, 9, 10, 11, 0,
            138, 136, 227, 221, 116, 9, 241, 149, 253, 82, 219, 45, 60, 186,
            93, 114, 202, 103, 9, 191, 29, 148, 18, 27, 243, 116, 136, 1,
            180, 15, 111, 92, 2, 63, 84, 113, 114, 91, 56, 197, 206, 199,
            220, 185, 74, 83, 112, 93, 171, 178, 249, 252, 255, 182, 181,
            136, 99, 138, 145, 148, 135, 158, 157, 144, 155>>,
      sig |-> <<255, 1, 116, 135, 12, 150, 134, 106, 250, 184, 169, 86, 64, 226,
            152, 61, 63, 22, 115, 177, 56, 218, 175, 19, 154, 8, 251, 139,
            47, 138, 101, 120, 83, 223, 80, 184, 183, 254, 142, 122, 52, 143,
            45, 163, 61, 52, 24, 248, 204, 199, 14, 186, 204, 190, 127, 172,
            79, 154, 165, 65, 144, 232, 86, 0>>],
     [kp |-> 1,
      msg |-> <<67, 67, 77, 83, 1, 2, 1, 201, 202, 203, 204, 205, 206, 207, 208,
            209, 210, 211, 212, 0, 138, 136, 227, 221, 116, 9, 241, 149, 253,
            82, 219, 45, 60, 186, 93, 114, 202, 103, 9, 191, 29, 148, 18, 27,
            243, 116, 136, 1, 180, 15, 111, 92, 1, 17, 55, 9, 3, 1, 127, 9,
            19, 49, 55, 25, 227, 225, 239, 217, 51, 49, 87, 73, 67, 65, 95,
            73, 179, 209, 215, 249, 227, 225, 175, 185, 147>>,
      sig |-> <<238, 99, 245, 135, 196, 61, 168, 137, 176, 61, 135, 156, 160, 58,
            252, 3, 212, 116, 115, 76, 180, 154, 134, 186, 40, 239, 109, 126,
            235, 147, 53, 169, 103, 235, 39, 26, 74, 201, 108, 214, 238, 51,
            66, 250, 27, 128, 225, 218, 49, 188, 25, 38, 7, 53, 30, 34, 228,
            133, 143, 143, 48, 34, 102, 1>>],
     [kp |-> 1,
      msg |-> <<67, 67, 77, 83, 1, 2, 1, 201, 202, 203, 204, 205, 206, 207, 208,
            209, 210, 211, 212, 0, 138, 136, 227, 221, 116, 9, 241, 149, 253,
            82, 219, 45, 60, 186, 93, 114, 202, 103, 9, 191, 29, 148, 18, 27,
            243, 116, 136, 1, 180, 15, 111, 92, 2, 63, 84, 113, 114, 91, 56,
            197, 206, 199, 220, 185, 74, 83, 112, 93, 171, 178, 249, 252,
            255, 182, 181, 136, 99, 138, 145, 148, 135, 158, 157, 144, 155>>,
      sig |-> <<110, 34, 173, 187, 122, 71, 113, 145, 151, 242, 149, 98, 64, 28,
            60, 226, 178, 232, 163, 27, 184, 179, 38, 69, 248, 95, 111, 218,
            12, 102, 214, 224, 135, 194, 236, 142, 37, 26, 113, 6, 82, 245,
            84, 61, 83, 76, 32, 133, 207, 202, 189, 232, 29, 85, 93, 5, 241,
            128, 210, 183, 104, 176, 203, 3>>],
     [kp |-> 1,
      msg |-> <<67, 67, 77, 1, 1, 1, 0, 1, 2, 3, 4, 5, 6, 7, 8, 9, 10, 11, 138,
            136, 227, 221, 116, 9, 241, 149, 253, 82, 219, 45, 60, 186, 93,
            114, 202, 103, 9, 191, 29, 148, 18, 27, 243, 116, 136, 1, 180,
            15, 111, 92, 222, 14, 174, 121, 160, 35, 22, 114, 25, 165, 209,
            6, 145, 162, 223, 71, 198, 154, 160, 172, 97, 163, 28, 76, 161,
            186, 36, 253, 3, 24, 19, 20, 149, 123, 234, 102, 53, 223, 1, 201,
            169, 20, 233, 54, 157, 63, 86, 187, 75, 214, 247, 238, 63, 103,
            50, 240, 140, 84, 114, 100, 100, 139, 116, 62, 55, 205, 206, 190,
            173, 194, 160, 189, 192, 169, 23, 57, 231, 204, 130, 164, 95,
            135, 143, 36, 225, 211, 116, 186, 198, 27, 91, 211, 181, 19, 227,
            69>>,
      sig |-> <<89, 125, 213, 102, 181, 179, 102, 3, 28, 70, 31, 238, 215, 88,
            177, 128, 21, 170, 127, 205, 3, 71, 212, 14, 116, 96, 123, 187,
            49, 177, 225, 206, 64, 2, 16, 9, 8, 184, 72, 44, 9, 239, 129, 99,
            56, 72, 185, 235, 191, 91, 78, 37, 225, 70, 115, 82, 131, 5, 162,
            36, 179, 15, 84, 11>>],
     [kp |-> 1,
      msg |-> <<67, 67, 77, 1, 1, 1, 201, 202, 203, 204, 205, 206, 207, 208, 209,
            210, 211, 212, 138, 136, 227, 221, 116, 9, 241, 149, 253, 82,
            219, 45, 60, 186, 93, 114, 202, 103, 9, 191, 29, 148, 18, 27,
            243, 116, 136, 1, 180, 15, 111, 92, 26, 163, 172, 131, 70, 0,
            182, 134, 102, 51, 12, 30, 160, 13, 1, 87, 163, 104, 209, 69,
            181, 157, 73, 78, 140, 50, 28, 238, 133, 49, 81, 3, 90, 115, 64,
            185, 175, 108, 67, 198, 51, 92, 215, 250, 226, 27, 75, 100, 235,
            32, 128, 14, 4, 31, 120, 47, 14, 69, 154, 18, 58, 109, 72, 224,
            161, 11, 145, 226, 148, 82, 250, 252, 206, 93, 9, 160, 98, 6,
            200, 15, 58, 94, 72, 100, 91, 255, 186, 99, 120, 155, 89, 25, 59,
            199, 66, 93>>,
      sig |-> <<106, 137, 71, 189, 171, 160, 166, 133, 80, 1, 30, 157, 189, 61,
            191, 233, 184, 143, 58, 209, 84, 4, 240, 46, 143, 214, 234, 146,
            120, 97, 153, 31, 90, 168, 246, 167, 87, 150, 65, 175, 159, 141,
            239, 146, 225, 170, 168, 96, 247, 41, 175, 164, 37, 75, 95, 124,
            132, 42, 146, 150, 168, 244, 191, 13>>],
     [kp |-> 1,
      msg |-> <<67, 67, 77, 1, 2, 1, 0, 1, 2, 3, 4, 5, 6, 7, 8, 9, 10, 11, 138,
            136, 227, 221, 116, 9, 241, 149, 253, 82, 219, 45, 60, 186, 93,
            114, 202, 103, 9, 191, 29, 148, 18, 27, 243, 116, 136, 1, 180,
            15, 111, 92, 222, 14, 174, 121, 160, 35, 22, 114, 25, 165, 209,
            6, 145, 162, 223, 71, 198, 154, 160, 172, 97, 163, 28, 76, 161,
            186, 36, 253, 3, 24, 19, 20, 149, 123, 234, 102, 53, 223, 1, 201,
            169, 20, 233, 54, 157, 63, 86, 187, 75, 214, 247, 238, 63, 103,
            50, 240, 140, 84, 114, 100, 100, 139, 116, 62, 55, 205, 206, 190,
            173, 194, 160, 189, 192, 169, 23, 57, 231, 204, 130, 164, 95,
            135, 143, 36, 225, 211, 116, 186, 198, 27, 91, 211, 181, 19, 227,
            69>>,
      sig |-> <<95, 77, 15, 224, 51, 109, 33, 86, 206, 56, 203, 8, 187, 144, 244,
            206, 225, 121, 107, 162, 160, 59, 135, 59, 36, 109, 128, 94, 201,
            245, 158, 64, 208, 4, 237, 111, 141, 136, 250, 201, 215, 201, 48,
            35, 171, 29, 230, 49, 23, 24, 105, 194, 250, 98, 83, 3, 134, 124,
            124, 234, 134, 135, 210, 11>>],
     [kp |-> 1,
      msg |-> <<67, 67, 77, 1, 2, 1, 201, 202, 203, 204, 205, 206, 207, 208, 209,
            210, 211, 212, 138, 136, 227, 221, 116, 9, 241, 149, 253, 82,
            219, 45, 60, 186, 93, 114, 202, 103, 9, 191, 29, 148, 18, 27,
            243, 116, 136, 1, 180, 15, 111, 92, 26, 163, 172, 131, 70, 0,
            182, 134, 102, 51, 12, 30, 160, 13, 1, 87, 163, 104, 209, 69,
            181, 157, 73, 78, 140, 50, 28, 238, 133, 49, 81, 3, 90, 115, 64,
            185, 175, 108, 67, 198, 51, 92, 215, 250, 226, 27, 75, 100, 235,
            32, 128, 14, 4, 31, 120, 47, 14, 69, 154, 18, 58, 109, 72, 224,
            161, 11, 145, 226, 148, 82, 250, 252, 206, 93, 9, 160, 98, 6,
            200, 15, 58, 94, 72, 100, 91, 255, 186, 99, 120, 155, 89, 25, 59,
            199, 66, 93>>,
      sig |-> <<43, 74, 40, 82, 222, 220, 155, 254, 59, 12, 32, 195, 99, 107,
            155, 89, 133, 128, 231, 170, 44, 94, 152, 198, 187, 110, 168,
            154, 139, 176, 123, 41, 153, 31, 156, 157, 122, 131, 217, 234,
            25, 140, 89, 42, 160, 75, 160, 128, 36, 189, 141, 145, 22, 151,
            149, 114, 32, 108, 52, 152, 196, 109, 220, 15>>],
     [kp |-> 2,
      msg |-> <<67, 67, 77, 83, 1, 1, 1, 0, 1, 2, 3, 4, 5, 6, 7, 8, 9, 10, 11, 0,
            129, 57, 119, 14, 168, 125, 23, 95, 86, 163, 84, 102, 195, 76,
            126, 204, 203, 141, 138, 145, 180, 238, 55, 162, 93, 246, 15, 91,
            143, 201, 179, 148, 1, 11, 22, 33, 44, 55, 66, 77, 88, 99, 110,
            121, 132, 143, 154, 165, 176, 187, 198, 209, 220, 231, 242, 253,
            8, 19, 30, 41, 52, 63, 74, 85, 96>>,
      sig |-> <<193, 244, 92, 122, 132, 99, 218, 67, 247, 49, 199, 255, 71, 28,
            122, 149, 114, 183, 109, 188, 26, 11, 64, 52, 236, 133, 218, 17,
            85, 124, 0, 52, 36, 209, 56, 242, 228, 124, 94, 43, 198, 167,
            148, 206, 28, 230, 146, 35, 113, 139, 85, 49, 16, 206, 120, 103,
            42, 114, 105, 64, 236, 121, 114, 14>>],
     [kp |-> 2,
      msg |-> <<67, 67, 77, 83, 1, 1, 1, 0, 1, 2, 3, 4, 5, 6, 7, 8, 9, 10, 11, 0,
            129, 57, 119, 14, 168, 125, 23, 95, 86, 163, 84, 102, 195, 76,
            126, 204, 203, 141, 138, 145, 180, 238, 55, 162, 93, 246, 15, 91,
            143, 201, 179, 148, 2, 11, 22, 33, 44, 55, 66, 77, 88, 99, 110,
            121, 132, 143, 154, 165, 176, 187, 198, 209, 220, 231, 242, 253,
            8, 19, 30, 41, 52, 63, 74, 85, 96>>,
      sig |-> <<104, 86, 189, 212, 69, 251, 85, 4, 4, 128, 4, 34, 82, 96, 101,
            254, 196, 43, 203, 124, 97, 56, 90, 229, 74, 227, 166, 234, 140,
            192, 90, 232, 22, 128, 37, 72, 58, 127, 237, 197, 145, 177, 142,
            8, 174, 67, 186, 168, 58, 7, 240, 117, 89, 154, 253, 188, 38, 2,
            68, 128, 85, 212, 98, 10>>],
     [kp |-> 2,
      msg |-> <<67, 67, 77, 83, 1, 1, 1, 201, 202, 203, 204, 205, 206, 207, 208,
            209, 210, 211, 212, 0, 129, 57, 119, 14, 168, 125, 23, 95, 86,
            163, 84, 102, 195, 76, 126, 204, 203, 141, 138, 145, 180, 238,
            55, 162, 93, 246, 15, 91, 143, 201, 179, 148, 1, 11, 22, 33, 44,
            55, 66, 77, 88, 99, 110, 121, 132, 143, 154, 165, 176, 187, 198,
            209, 220, 231, 242, 253, 8, 19, 30, 41, 52, 63, 74, 85, 96>>,
      sig |-> <<18, 34, 206, 121, 88, 97, 233, 109, 80, 167, 34, 72, 11, 221,
            113, 154, 17, 118, 245, 249, 155, 185, 69, 245, 82, 226, 60, 249,
            255, 203, 21, 62, 251, 203, 40, 35, 156, 235, 23, 71, 186, 135,
            110, 209, 253, 206, 27, 151, 228, 152, 15, 199, 254, 152, 2, 63,
            60, 187, 76, 202, 120, 5, 181, 14>>],
     [kp |-> 2,
      msg |-> <<67, 67, 77, 83, 1, 1, 1, 201, 202, 203, 204, 205, 206, 207, 208,
            209, 210, 211, 212, 0, 129, 57, 119, 14, 168, 125, 23, 95, 86,
            163, 84, 102, 195, 76, 126, 204, 203, 141, 138, 145, 180, 238,
            55, 162, 93, 246, 15, 91, 143, 201, 179, 148, 2, 11, 22, 33, 44,
            55, 66, 77, 88, 99, 110, 121, 132, 143, 154, 165, 176, 187, 198,
            209, 220, 231, 242, 253, 8, 19, 30, 41, 52, 63, 74, 85, 96>>,
      sig |-> <<101, 74, 5, 92, 10, 105, 173, 142, 130, 2, 90, 61, 182, 212, 215,
            86, 198, 170, 155, 245, 208, 70, 181, 162, 184, 243, 50, 165, 6,
            171, 172, 26, 183, 94, 41, 15, 97, 131, 29, 219, 36, 62, 223, 91,
            152, 174, 15, 152, 66, 122, 134, 121, 92, 148, 166, 155, 76, 39,
            207, 117, 252, 137, 77, 9>>],
     [kp |-> 2,
      msg |-> <<67, 67, 77, 83, 1, 2, 1, 0, 1, 2, 3, 4, 5, 6, 7, 8, 9, 10, 11, 0,
            129, 57, 119, 14, 168, 125, 23, 95, 86, 163, 84, 102, 195, 76,
            126, 204, 203, 141, 138, 145, 180, 238, 55, 162, 93, 246, 15, 91,
            143, 201, 179, 148, 1, 17, 55, 9, 3, 1, 127, 9, 19, 49, 55, 25,
            227, 225, 239, 217, 51, 49, 87, 73, 67, 65, 95, 73, 179, 209,
            215, 249, 227, 225, 175, 185, 147>>,
      sig |-> <<13, 241, 183, 128, 181, 232, 1, 94, 44, 172, 90, 131, 253, 121,
            123, 26, 247, 237, 119, 187, 49, 78, 183, 235, 60, 43, 157, 62,
            215, 184, 145, 6, 218, 187, 174, 73, 187, 67, 102, 88, 212, 231,
            179, 147, 5, 12, 196, 216, 185, 8, 53, 167, 95, 31, 196, 28, 170,
            225, 7, 238, 177, 109, 46, 6>>],
     [kp |-> 2,
      msg |-> <<67, 67, 77, 83, 1, 2, 1, 0, 1, 2, 3, 4, 5, 6, 7, 8, 9, 10, 11, 0,
            129, 57, 119, 14, 168, 125, 23, 95, 86, 163, 84, 102, 195, 76,
            126, 204, 203, 141, 138, 145, 180, 238, 55, 162, 93, 246, 15, 91,
            143, 201, 179, 148, 2, 63, 84, 113, 114, 91, 56, 197, 206, 199,
            220, 185, 74, 83, 112, 93, 171, 178, 249, 252, 255, 182, 181,
            136, 99, 138, 145, 148, 135, 158, 157, 144, 155>>,
      sig |-> <<48, 30, 11, 208, 48, 7, 210, 71, 59, 80, 233, 103, 137, 66, 20,
            26, 171, 154, 237, 46, 145, 117, 188, 1, 169, 162, 113, 124, 70,
            19, 164, 160, 23, 1, 195, 7, 209, 146, 98, 203, 141, 205, 241,
            153, 62, 188, 227, 57, 10, 125, 253, 155, 191, 218, 105, 87, 140,
            35, 59, 158, 85, 49, 196, 8>>],
     [kp |-> 2,
      msg |-> <<67, 67, 77, 83, 1, 2, 1, 201, 202, 203, 204, 205, 206, 207, 208,
            209, 210, 211, 212, 0, 129, 57, 119, 14, 168, 125, 23, 95, 86,
            163, 84, 102, 195, 76, 126, 204, 203, 141, 138, 145, 180, 238,
            55, 162, 93, 246, 15, 91, 143, 201, 179, 148, 1, 17, 55, 9, 3, 1,
            127, 9, 19, 49, 55, 25, 227, 225, 239, 217, 51, 49, 87, 73, 67,
            65, 95, 73, 179, 209, 215, 249, 227, 225, 175, 185, 147>>,
      sig |-> <<164, 120, 14, 134, 67, 115, 135, 141, 44, 123, 166, 2, 7, 122,
            185, 157, 195, 116, 188, 37, 167, 32, 40, 200, 28, 64, 155, 244,
            31, 247, 0, 103, 74, 182, 7, 58, 228, 20, 137, 80, 131, 12, 148,
            190, 166, 4, 88, 128, 184, 247, 200, 89, 117, 156, 97, 51, 36,
            92, 61, 115, 45, 27, 205, 10>>],
     [kp |-> 2,
      msg |-> <<67, 67, 77, 83, 1, 2, 1, 201, 202, 203, 204, 205, 206, 207, 208,
            209, 210, 211, 212, 0, 129, 57, 119, 14, 168, 125, 23, 95, 86,
            163, 84, 102, 195, 76, 126, 204, 203, 141, 138, 145, 180, 238,
            55, 162, 93, 246, 15, 91, 143, 201, 179, 148, 2, 63, 84, 113,
            114, 91, 56, 197, 206, 199, 220, 185, 74, 83, 112, 93, 171, 178,
            249, 252, 255, 182, 181, 136, 99, 138, 145, 148, 135, 158, 157,
            144, 155>>,
      sig |-> <<237, 42, 81, 156, 14, 102, 192, 109, 132, 226, 167, 3, 139, 86,
            87, 112, 216, 19, 7, 179, 7, 59, 170, 109, 5, 145, 99, 23, 20,
            57, 114, 59, 26, 138, 119, 11, 141, 183, 174, 171, 154, 145, 220,
            36, 147, 52, 138, 182, 127, 186, 124, 26, 145, 194, 26, 69, 196,
            133, 61, 56, 60, 219, 103, 3>>]}

\* keypair.sign(msg).to_bytes(): the 64 bytes R, s
SignatureOf(kp, msg) ==
    IF \E e \in KnownSignatures : e.kp = kp /\ e.msg = msg
    THEN (CHOOSE e \in KnownSignatures : e.kp = kp /\ e.msg = msg).sig
    ELSE Ed25519Sign(SecretKeyBytes(kp), msg)

\* Key, message and signature bytes the faulted containers of this model
\* hand to verify for which Ed25519Verify is false.
KnownRejections ==
    {[pk |-> <<138, 136, 227, 221, 116, 9, 241, 149, 253, 82, 219, 45, 60, 186,
            93, 114, 202, 103, 9, 191, 29, 148, 18, 27, 243, 116, 136, 1,
            180, 15, 111, 92>>,
      msg |-> <<67, 67, 77, 1, 0, 1, 201, 202, 203, 204, 205, 206, 207, 208, 209,
           210, 211, 212, 138, 136, 227, 221, 116, 9, 241, 149, 253, 82, 219,
           45, 60, 186, 93, 114, 202, 103, 9, 191, 29, 148, 18, 27, 243, 116,
           136, 1, 180, 15, 111, 92, 170, 251, 241, 134, 6, 189, 174, 113,
           254, 232, 38, 225, 108, 50, 129, 115>>,
      sig |-> <<27, 67, 188, 62, 88, 102, 79, 116, 27, 179, 203, 67, 45, 145, 16,
            69, 164, 73, 199, 47, 53, 25, 125, 137, 39, 214, 145, 108, 48,
            85, 64, 38, 19, 13, 224, 88, 237, 177, 213, 222, 27, 108, 5, 207,
            71, 140, 22, 15, 24, 99, 52, 127, 41, 91, 209, 152, 208, 55, 40,
            202, 54, 50, 152, 12>>],
     [pk |-> <<138, 136, 227, 221, 116, 9, 241, 149, 253, 82, 219, 45, 60, 186,
            93, 114, 202, 103, 9, 191, 29, 148, 18, 27, 243, 116, 136, 1,
            180, 15, 111, 92>>,
      msg |-> <<67, 67, 77, 1, 0, 1, 201, 202, 203, 204, 205, 206, 207, 208, 209,
           210, 211, 212, 138, 136, 227, 221, 116, 9, 241, 149, 253, 82, 219,
           45, 60, 186, 93, 114, 202, 103, 9, 191, 29, 148, 18, 27, 243, 116,
           136, 1, 180, 15, 111, 92, 170, 251, 241, 134, 6, 189, 174, 113,
           254, 232, 38, 225, 108, 50, 129, 115>>,
      sig |-> <<170, 33, 128, 39, 50, 19, 75, 248, 220, 176, 99, 32, 119, 93, 88,
            114, 255, 229, 0, 253, 242, 25, 218, 63, 99, 8, 236, 27, 70, 228,
            226, 233, 152, 145, 111, 152, 173, 76, 244, 223, 1, 33, 33, 125,
            84, 70, 149, 82, 65, 183, 118, 125, 190, 158, 235, 188, 65, 52,
            98, 96, 254, 159, 79, 6>>],
     [pk |-> <<138, 136, 227, 221, 116, 9, 241, 149, 253, 82, 219, 45, 60, 186,
            93, 114, 202, 103, 9, 191, 29, 148, 18, 27, 243, 116, 136, 1,
            180, 15, 111, 92>>,
      msg |-> <<67, 67, 77, 1, 1, 1, 201, 202, 203, 204, 205, 206, 207, 208, 209,
           210, 211, 212, 138, 136, 227, 221, 116, 9, 241, 149, 253, 82, 219,
           45, 60, 186, 93, 114, 202, 103, 9, 191, 29, 148, 18, 27, 243, 116,
           136, 1, 180, 15, 111, 92, 170, 251, 241, 134, 6, 189, 174, 113,
           254, 232, 38, 225, 108, 50, 129, 115>>,
      sig |-> <<170, 33, 128, 39, 50, 19, 75, 248, 220, 176, 99, 32, 119, 93, 88,
            114, 255, 229, 0, 253, 242, 25, 218, 63, 99, 8, 236, 27, 70, 228,
            226, 233, 152, 145, 111, 152, 173, 76, 244, 223, 1, 33, 33, 125,
            84, 70, 149, 82, 65, 183, 118, 125, 190, 158, 235, 188, 65, 52,
            98, 96, 254, 159, 79, 6>>],
     [pk |-> <<138, 136, 227, 221, 116, 9, 241, 149, 253, 82, 219, 45, 60, 186,
            93, 114, 202, 103, 9, 191, 29, 148, 18, 27, 243, 116, 136, 1,
            180, 15, 111, 92>>,
      msg |-> <<67, 67, 77, 1, 1, 1, 201, 202, 203, 204, 205, 206, 207, 208, 209,
           210, 211, 212, 138, 136, 227, 221, 116, 9, 241, 149, 253, 82, 219,
           45, 60, 186, 93, 114, 202, 103, 9, 191, 29, 148, 18, 27, 243, 116,
           136, 1, 180, 15, 111, 92, 171, 251, 241, 134, 6, 189, 174, 113,
           254, 232, 38, 225, 108, 50, 129, 115>>,
      sig |-> <<27, 67, 188, 62, 88, 102, 79, 116, 27, 179, 203, 67, 45, 145, 16,
            69, 164, 73, 199, 47, 53, 25, 125, 137, 39, 214, 145, 108, 48,
            85, 64, 38, 19, 13, 224, 88, 237, 177, 213, 222, 27, 108, 5, 207,
            71, 140, 22, 15, 24, 99, 52, 127, 41, 91, 209, 152, 208, 55, 40,
            202, 54, 50, 152, 12>>],
     [pk |-> <<138, 136, 227, 221, 116, 9, 241, 149, 253, 82, 219, 45, 60, 186,
            93, 114, 202, 103, 9, 191, 29, 148, 18, 27, 243, 116, 136, 1,
            180, 15, 111, 92>>,
      msg |-> <<67, 67, 77, 1, 2, 1, 201, 202, 203, 204, 205, 206, 207, 208, 209,
           210, 211, 212, 138, 136, 227, 221, 116, 9, 241, 149, 253, 82, 219,
           45, 60, 186, 93, 114, 202, 103, 9, 191, 29, 148, 18, 27, 243, 116,
           136, 1, 180, 15, 111, 92, 170, 251, 241, 134, 6, 189, 174, 113,
           254, 232, 38, 225, 108, 50, 129, 115>>,
      sig |-> <<27, 67, 188, 62, 88, 102, 79, 116, 27, 179, 203, 67, 45, 145, 16,
            69, 164, 73, 199, 47, 53, 25, 125, 137, 39, 214, 145, 108, 48,
            85, 64, 38, 19, 13, 224, 88, 237, 177, 213, 222, 27, 108, 5, 207,
            71, 140, 22, 15, 24, 99, 52, 127, 41, 91, 209, 152, 208, 55, 40,
            202, 54, 50, 152, 12>>],
     [pk |-> <<138, 136, 227, 221, 116, 9, 241, 149, 253, 82, 219, 45, 60, 186,
            93, 114, 202, 103, 9, 191, 29, 148, 18, 27, 243, 116, 136, 1,
            180, 15, 111, 92>>,
      msg |-> <<67, 67, 77, 1, 2, 1, 201, 202, 203, 204, 205, 206, 207, 208, 209,
           210, 211, 212, 138, 136, 227, 221, 116, 9, 241, 149, 253, 82, 219,
           45, 60, 186, 93, 114, 202, 103, 9, 191, 29, 148, 18, 27, 243, 116,
           136, 1, 180, 15, 111, 92, 171, 251, 241, 134, 6, 189, 174, 113,
           254, 232, 38, 225, 108, 50, 129, 115>>,
      sig |-> <<170, 33, 128, 39, 50, 19, 75, 248, 220, 176, 99, 32, 119, 93, 88,
            114, 255, 229, 0, 253, 242, 25, 218, 63, 99, 8, 236, 27, 70, 228,
            226, 233, 152, 145, 111, 152, 173, 76, 244, 223, 1, 33, 33, 125,
            84, 70, 149, 82, 65, 183, 118, 125, 190, 158, 235, 188, 65, 52,
            98, 96, 254, 159, 79, 6>>],
     [pk |-> <<138, 136, 227, 221, 116, 9, 241, 149, 253, 82, 219, 45, 60, 186,
            93, 114, 202, 103, 9, 191, 29, 148, 18, 27, 243, 116, 136, 1,
            180, 15, 111, 92>>,
      msg |-> <<67, 67, 77, 1, 3, 1, 201, 202, 203, 204, 205, 206, 207, 208, 209,
           210, 211, 212, 138, 136, 227, 221, 116, 9, 241, 149, 253, 82, 219,
           45, 60, 186, 93, 114, 202, 103, 9, 191, 29, 148, 18, 27, 243, 116,
           136, 1, 180, 15, 111, 92, 170, 251, 241, 134, 6, 189, 174, 113,
           254, 232, 38, 225, 108, 50, 129, 115>>,
      sig |-> <<170, 33, 128, 39, 50, 19, 75, 248, 220, 176, 99, 32, 119, 93, 88,
            114, 255, 229, 0, 253, 242, 25, 218, 63, 99, 8, 236, 27, 70, 228,
            226, 233, 152, 145, 111, 152, 173, 76, 244, 223, 1, 33, 33, 125,
            84, 70, 149, 82, 65, 183, 118, 125, 190, 158, 235, 188, 65, 52,
            98, 96, 254, 159, 79, 6>>],
     [pk |-> <<139, 136, 227, 221, 116, 9, 241, 149, 253, 82, 219, 45, 60, 186,
            93, 114, 202, 103, 9, 191, 29, 148, 18, 27, 243, 116, 136, 1,
            180, 15, 111, 92>>,
      msg |-> <<67, 67, 77, 1, 1, 1, 201, 202, 203, 204, 205, 206, 207, 208, 209,
           210, 211, 212, 139, 136, 227, 221, 116, 9, 241, 149, 253, 82, 219,
           45, 60, 186, 93, 114, 202, 103, 9, 191, 29, 148, 18, 27, 243, 116,
           136, 1, 180, 15, 111, 92, 170, 251, 241, 134, 6, 189, 174, 113,
           254, 232, 38, 225, 108, 50, 129, 115>>,
      sig |-> <<27, 67, 188, 62, 88, 102, 79, 116, 27, 179, 203, 67, 45, 145, 16,
            69, 164, 73, 199, 47, 53, 25, 125, 137, 39, 214, 145, 108, 48,
            85, 64, 38, 19, 13, 224, 88, 237, 177, 213, 222, 27, 108, 5, 207,
            71, 140, 22, 15, 24, 99, 52, 127, 41, 91, 209, 152, 208, 55, 40,
            202, 54, 50, 152, 12>>],
     [pk |-> <<139, 136, 227, 221, 116, 9, 241, 149, 253, 82, 219, 45, 60, 186,
            93, 114, 202, 103, 9, 191, 29, 148, 18, 27, 243, 116, 136, 1,
            180, 15, 111, 92>>,
      msg |-> <<67, 67, 77, 1, 2, 1, 201, 202, 203, 204, 205, 206, 207, 208, 209,
           210, 211, 212, 139, 136, 227, 221, 116, 9, 241, 149, 253, 82, 219,
           45, 60, 186, 93, 114, 202, 103, 9, 191, 29, 148, 18, 27, 243, 116,
           136, 1, 180, 15, 111, 92, 170, 251, 241, 134, 6, 189, 174, 113,
           254, 232, 38, 225, 108, 50, 129, 115>>,
      sig |-> <<170, 33, 128, 39, 50, 19, 75, 248, 220, 176, 99, 32, 119, 93, 88,
            114, 255, 229, 0, 253, 242, 25, 218, 63, 99, 8, 236, 27, 70, 228,
            226, 233, 152, 145, 111, 152, 173, 76, 244, 223, 1, 33, 33, 125,
            84, 70, 149, 82, 65, 183, 118, 125, 190, 158, 235, 188, 65, 52,
            98, 96, 254, 159, 79, 6>>],
     [pk |-> <<138, 136, 227, 221, 116, 9, 241, 149, 253, 82, 219, 45, 60, 186,
            93, 114, 202, 103, 9, 191, 29, 148, 18, 27, 243, 116, 136, 1,
            180, 15, 111, 92>>,
      msg |-> <<67, 67, 77, 1, 0, 1, 201, 202, 203, 204, 205, 206, 207, 208, 209,
           210, 211, 212, 138, 136, 227, 221, 116, 9, 241, 149, 253, 82, 219,
           45, 60, 186, 93, 114, 202, 103, 9, 191, 29, 148, 18, 27, 243, 116,
           136, 1, 180, 15, 111, 92, 88, 232, 238, 198, 91, 242, 53, 153, 20,
           161, 174, 242, 179, 166, 45, 138, 249, 50, 29, 80, 34>>,
      sig |-> <<124, 238, 234, 40, 221, 107, 185, 29, 149, 219, 160, 181, 142,
            123, 114, 22, 34, 244, 163, 19, 14, 13, 188, 194, 23, 221, 242,
            24, 47, 154, 131, 12, 113, 236, 98, 9, 101, 186, 121, 254, 238,
            199, 118, 124, 80, 22, 120, 39, 176, 53, 226, 35, 128, 98, 113,
            139, 97, 252, 140, 202, 153, 136, 72, 9>>],
     [pk |-> <<138, 136, 227, 221, 116, 9, 241, 149, 253, 82, 219, 45, 60, 186,
            93, 114, 202, 103, 9, 191, 29, 148, 18, 27, 243, 116, 136, 1,
            180, 15, 111, 92>>,
      msg |-> <<67, 67, 77, 1, 0, 1, 201, 202, 203, 204, 205, 206, 207, 208, 209,
           210, 211, 212, 138, 136, 227, 221, 116, 9, 241, 149, 253, 82, 219,
           45, 60, 186, 93, 114, 202, 103, 9, 191, 29, 148, 18, 27, 243, 116,
           136, 1, 180, 15, 111, 92, 88, 232, 238, 198, 91, 242, 53, 153, 20,
           161, 174, 242, 179, 166, 45, 138, 249, 50, 29, 80, 34>>,
      sig |-> <<194, 249, 57, 49, 82, 109, 74, 95, 199, 141, 156, 236, 14, 49,
            93, 148, 31, 249, 11, 9, 172, 41, 254, 49, 129, 149, 137, 141,
            187, 12, 142, 220, 156, 209, 189, 131, 33, 47, 220, 168, 57, 236,
            99, 195, 54, 35, 250, 62, 182, 234, 185, 195, 219, 147, 191, 209,
            90, 36, 239, 146, 37, 3, 242, 9>>],
     [pk |-> <<138, 136, 227, 221, 116, 9, 241, 149, 253, 82, 219, 45, 60, 186,
            93, 114, 202, 103, 9, 191, 29, 148, 18, 27, 243, 116, 136, 1,
            180, 15, 111, 92>>,
      msg |-> <<67, 67, 77, 1, 1, 1, 201, 202, 203, 204, 205, 206, 207, 208, 209,
           210, 211, 212, 138, 136, 227, 221, 116, 9, 241, 149, 253, 82, 219,
           45, 60, 186, 93, 114, 202, 103, 9, 191, 29, 148, 18, 27, 243, 116,
           136, 1, 180, 15, 111, 92, 88, 232, 238, 198, 91, 242, 53, 153, 20,
           161, 174, 242, 179, 166, 45, 138, 249, 50, 29, 80, 34>>,
      sig |-> <<124, 238, 234, 40, 221, 107, 185, 29, 149, 219, 160, 181, 142,
            123, 114, 22, 34, 244, 163, 19, 14, 13, 188, 194, 23, 221, 242,
            24, 47, 154, 131, 12, 113, 236, 98, 9, 101, 186, 121, 254, 238,
            199, 118, 124, 80, 22, 120, 39, 176, 53, 226, 35, 128, 98, 113,
            139, 97, 252, 140, 202, 153, 136, 72, 9>>],
     [pk |-> <<138, 136, 227, 221, 116, 9, 241, 149, 253, 82, 219, 45, 60, 186,
            93, 114, 202, 103, 9, 191, 29, 148, 18, 27, 243, 116, 136, 1,
            180, 15, 111, 92>>,
      msg |-> <<67, 67, 77, 1, 1, 1, 201, 202, 203, 204, 205, 206, 207, 208, 209,
           210, 211, 212, 138, 136, 227, 221, 116, 9, 241, 149, 253, 82, 219,
           45, 60, 186, 93, 114, 202, 103, 9, 191, 29, 148, 18, 27, 243, 116,
           136, 1, 180, 15, 111, 92, 88, 232, 238, 198, 91, 243, 53, 153, 20,
           161, 174, 242, 179, 166, 45, 138, 249, 50, 29, 80, 34>>,
      sig |-> <<194, 249, 57, 49, 82, 109, 74, 95, 199, 141, 156, 236, 14, 49,
            93, 148, 31, 249, 11, 9, 172, 41, 254, 49, 129, 149, 137, 141,
            187, 12, 142, 220, 156, 209, 189, 131, 33, 47, 220, 168, 57, 236,
            99, 195, 54, 35, 250, 62, 182, 234, 185, 195, 219, 147, 191, 209,
            90, 36, 239, 146, 37, 3, 242, 9>>],
     [pk |-> <<138, 136, 227, 221, 116, 9, 241, 149, 253, 82, 219, 45, 60, 186,
            93, 114, 202, 103, 9, 191, 29, 148, 18, 27, 243, 116, 136, 1,
            180, 15, 111, 92>>,
      msg |-> <<67, 67, 77, 1, 2, 1, 201, 202, 203, 204, 205, 206, 207, 208, 209,
           210, 211, 212, 138, 136, 227, 221, 116, 9, 241, 149, 253, 82, 219,
           45, 60, 186, 93, 114, 202, 103, 9, 191, 29, 148, 18, 27, 243, 116,
           136, 1, 180, 15, 111, 92, 88, 232, 238, 198, 91, 242, 53, 153, 20,
           161, 174, 242, 179, 166, 45, 138, 249, 50, 29, 80, 34>>,
      sig |-> <<194, 249, 57, 49, 82, 109, 74, 95, 199, 141, 156, 236, 14, 49,
            93, 148, 31, 249, 11, 9, 172, 41, 254, 49, 129, 149, 137, 141,
            187, 12, 142, 220, 156, 209, 189, 131, 33, 47, 220, 168, 57, 236,
            99, 195, 54, 35, 250, 62, 182, 234, 185, 195, 219, 147, 191, 209,
            90, 36, 239, 146, 37, 3, 242, 9>>],
     [pk |-> <<138, 136, 227, 221, 116, 9, 241, 149, 253, 82, 219, 45, 60, 186,
            93, 114, 202, 103, 9, 191, 29, 148, 18, 27, 243, 116, 136, 1,
            180, 15, 111, 92>>,
      msg |-> <<67, 67, 77, 1, 2, 1, 201, 202, 203, 204, 205, 206, 207, 208, 209,
           210, 211, 212, 138, 136, 227, 221, 116, 9, 241, 149, 253, 82, 219,
           45, 60, 186, 93, 114, 202, 103, 9, 191, 29, 148, 18, 27, 243, 116,
           136, 1, 180, 15, 111, 92, 88, 232, 238, 198, 91, 243, 53, 153, 20,
           161, 174, 242, 179, 166, 45, 138, 249, 50, 29, 80, 34>>,
      sig |-> <<124, 238, 234, 40, 221, 107, 185, 29, 149, 219, 160, 181, 142,
            123, 114, 22, 34, 244, 163, 19, 14, 13, 188, 194, 23, 221, 242,
            24, 47, 154, 131, 12, 113, 236, 98, 9, 101, 186, 121, 254, 238,
            199, 118, 124, 80, 22, 120, 39, 176, 53, 226, 35, 128, 98, 113,
            139, 97, 252, 140, 202, 153, 136, 72, 9>>],
     [pk |-> <<138, 136, 227, 221, 116, 9, 241, 149, 253, 82, 219, 45, 60, 186,
            93, 114, 202, 103, 9, 191, 29, 148, 18, 27, 243, 116, 136, 1,
            180, 15, 111, 92>>,
      msg |-> <<67, 67, 77, 1, 3, 1, 201, 202, 203, 204, 205, 206, 207, 208, 209,
           210, 211, 212, 138, 136, 227, 221, 116, 9, 241, 149, 253, 82, 219,
           45, 60, 186, 93, 114, 202, 103, 9, 191, 29, 148, 18, 27, 243, 116,
           136, 1, 180, 15, 111, 92, 88, 232, 238, 198, 91, 242, 53, 153, 20,
           161, 174, 242, 179, 166, 45, 138, 249, 50, 29, 80, 34>>,
      sig |-> <<124, 238, 234, 40, 221, 107, 185, 29, 149, 219, 160, 181, 142,
            123, 114, 22, 34, 244, 163, 19, 14, 13, 188, 194, 23, 221, 242,
            24, 47, 154, 131, 12, 113, 236, 98, 9, 101, 186, 121, 254, 238,
            199, 118, 124, 80, 22, 120, 39, 176, 53, 226, 35, 128, 98, 113,
            139, 97, 252, 140, 202, 153, 136, 72, 9>>],
     [pk |-> <<139, 136, 227, 221, 116, 9, 241, 149, 253, 82, 219, 45, 60, 186,
            93, 114, 202, 103, 9, 191, 29, 148, 18, 27, 243, 116, 136, 1,
            180, 15, 111, 92>>,
      msg |-> <<67, 67, 77, 1, 1, 1, 201, 202, 203, 204, 205, 206, 207, 208, 209,
           210, 211, 212, 139, 136, 227, 221, 116, 9, 241, 149, 253, 82, 219,
           45, 60, 186, 93, 114, 202, 103, 9, 191, 29, 148, 18, 27, 243, 116,
           136, 1, 180, 15, 111, 92, 88, 232, 238, 198, 91, 242, 53, 153, 20,
           161, 174, 242, 179, 166, 45, 138, 249, 50, 29, 80, 34>>,
      sig |-> <<194, 249, 57, 49, 82, 109, 74, 95, 199, 141, 156, 236, 14, 49,
            93, 148, 31, 249, 11, 9, 172, 41, 254, 49, 129, 149, 137, 141,
            187, 12, 142, 220, 156, 209, 189, 131, 33, 47, 220, 168, 57, 236,
            99, 195, 54, 35, 250, 62, 182, 234, 185, 195, 219, 147, 191, 209,
            90, 36, 239, 146, 37, 3, 242, 9>>],
     [pk |-> <<139, 136, 227, 221, 116, 9, 241, 149, 253, 82, 219, 45, 60, 186,
            93, 114, 202, 103, 9, 191, 29, 148, 18, 27, 243, 116, 136, 1,
            180, 15, 111, 92>>,
      msg |-> <<67, 67, 77, 1, 2, 1, 201, 202, 203, 204, 205, 206, 207, 208, 209,
           210, 211, 212, 139, 136, 227, 221, 116, 9, 241, 149, 253, 82, 219,
           45, 60, 186, 93, 114, 202, 103, 9, 191, 29, 148, 18, 27, 243, 116,
           136, 1, 180, 15, 111, 92, 88, 232, 238, 198, 91, 242, 53, 153, 20,
           161, 174, 242, 179, 166, 45, 138, 249, 50, 29, 80, 34>>,
      sig |-> <<124, 238, 234, 40, 221, 107, 185, 29, 149, 219, 160, 181, 142,
            123, 114, 22, 34, 244, 163, 19, 14, 13, 188, 194, 23, 221, 242,
            24, 47, 154, 131, 12, 113, 236, 98, 9, 101, 186, 121, 254, 238,
            199, 118, 124, 80, 22, 120, 39, 176, 53, 226, 35, 128, 98, 113,
            139, 97, 252, 140, 202, 153, 136, 72, 9>>],
     [pk |-> <<138, 136, 227, 221, 116, 9, 241, 149, 253, 82, 219, 45, 60, 186,
            93, 114, 202, 103, 9, 191, 29, 148, 18, 27, 243, 116, 136, 1,
            180, 15, 111, 92>>,
      msg |-> <<67, 67, 77, 83, 1, 1, 1, 201, 202, 203, 204, 205, 206, 207, 208,
           209, 210, 211, 212, 0, 138, 136, 227, 221, 116, 9, 241, 149, 253,
           82, 219, 45, 60, 186, 93, 114, 202, 103, 9, 191, 29, 148, 18, 27,
           243, 116, 136, 1, 180, 15, 111, 92, 2, 11, 22, 33, 44, 55, 66, 77,
           88, 99, 110, 121, 132, 143, 154, 165, 176, 187, 198, 209, 220,
           231, 242, 253, 8, 19, 30, 41, 52, 63, 74, 85, 96>>,
      sig |-> <<97, 240, 58, 227, 5, 140, 55, 224, 159, 111, 45, 173, 243, 154,
            126, 66, 24, 103, 51, 116, 220, 196, 249, 218, 161, 22, 119, 76,
            113, 80, 242, 85, 217, 240, 148, 51, 168, 101, 169, 112, 226, 59,
            109, 35, 228, 0, 75, 177, 71, 21, 149, 25, 205, 207, 68, 102, 24,
            67, 69, 181, 10, 112, 24, 7>>],
     [pk |-> <<138, 136, 227, 221, 116, 9, 241, 149, 253, 82, 219, 45, 60, 186,
            93, 114, 202, 103, 9, 191, 29, 148, 18, 27, 243, 116, 136, 1,
            180, 15, 111, 92>>,
      msg |-> <<67, 67, 77, 83, 1, 1, 1, 201, 202, 203, 204, 205, 206, 207, 208,
           209, 210, 211, 212, 0, 138, 136, 227, 221, 116, 9, 241, 149, 253,
           82, 219, 45, 60, 186, 93, 114, 202, 103, 9, 191, 29, 148, 18, 27,
           243, 116, 136, 1, 180, 15, 111, 92, 3, 11, 22, 33, 44, 55, 66, 77,
           88, 99, 110, 121, 132, 143, 154, 165, 176, 187, 198, 209, 220,
           231, 242, 253, 8, 19, 30, 41, 52, 63, 74, 85, 96>>,
      sig |-> <<133, 46, 122, 130, 197, 163, 111, 183, 83, 219, 86, 8, 209, 62,
            185, 58, 55, 143, 86, 95, 162, 123, 104, 151, 31, 79, 5, 211,
            115, 218, 210, 210, 107, 83, 63, 188, 89, 111, 243, 207, 167,
            207, 253, 187, 255, 158, 229, 205, 31, 114, 46, 26, 113, 227,
            255, 86, 140, 42, 37, 189, 8, 143, 25, 3>>],
     [pk |-> <<138, 136, 227, 221, 116, 9, 241, 149, 253, 82, 219, 45, 60, 186,
            93, 114, 202, 103, 9, 191, 29, 148, 18, 27, 243, 116, 136, 1,
            180, 15, 111, 92>>,
      msg |-> <<67, 67, 77, 83, 1, 2, 1, 201, 202, 203, 204, 205, 206, 207, 208,
           209, 210, 211, 212, 0, 138, 136, 227, 221, 116, 9, 241, 149, 253,
           82, 219, 45, 60, 186, 93, 114, 202, 103, 9, 191, 29, 148, 18, 27,
           243, 116, 136, 1, 180, 15, 111, 92, 1, 11, 22, 33, 44, 55, 66, 77,
           88, 99, 110, 121, 132, 143, 154, 165, 176, 187, 198, 209, 220,
           231, 242, 253, 8, 19, 30, 41, 52, 63, 74, 85, 96>>,
      sig |-> <<97, 240, 58, 227, 5, 140, 55, 224, 159, 111, 45, 173, 243, 154,
            126, 66, 24, 103, 51, 116, 220, 196, 249, 218, 161, 22, 119, 76,
            113, 80, 242, 85, 217, 240, 148, 51, 168, 101, 169, 112, 226, 59,
            109, 35, 228, 0, 75, 177, 71, 21, 149, 25, 205, 207, 68, 102, 24,
            67, 69, 181, 10, 112, 24, 7>>],
     [pk |-> <<138, 136, 227, 221, 116, 9, 241, 149, 253, 82, 219, 45, 60, 186,
            93, 114, 202, 103, 9, 191, 29, 148, 18, 27, 243, 116, 136, 1,
            180, 15, 111, 92>>,
      msg |-> <<67, 67, 77, 83, 1, 2, 1, 201, 202, 203, 204, 205, 206, 207, 208,
           209, 210, 211, 212, 0, 138, 136, 227, 221, 116, 9, 241, 149, 253,
           82, 219, 45, 60, 186, 93, 114, 202, 103, 9, 191, 29, 148, 18, 27,
           243, 116, 136, 1, 180, 15, 111, 92, 2, 11, 22, 33, 44, 55, 66, 77,
           88, 99, 110, 121, 132, 143, 154, 165, 176, 187, 198, 209, 220,
           231, 242, 253, 8, 19, 30, 41, 52, 63, 74, 85, 96>>,
      sig |-> <<133, 46, 122, 130, 197, 163, 111, 183, 83, 219, 86, 8, 209, 62,
            185, 58, 55, 143, 86, 95, 162, 123, 104, 151, 31, 79, 5, 211,
            115, 218, 210, 210, 107, 83, 63, 188, 89, 111, 243, 207, 167,
            207, 253, 187, 255, 158, 229, 205, 31, 114, 46, 26, 113, 227,
            255, 86, 140, 42, 37, 189, 8, 143, 25, 3>>],
     [pk |-> <<138, 136, 227, 221, 116, 9, 241, 149, 253, 82, 219, 45, 60, 186,
            93, 114, 202, 103, 9, 191, 29, 148, 18, 27, 243, 116, 136, 1,
            180, 15, 111, 92>>,
      msg |-> <<67, 67, 77, 83, 1, 2, 1, 201, 202, 203, 204, 205, 206, 207, 208,
           209, 210, 211, 212, 0, 138, 136, 227, 221, 116, 9, 241, 149, 253,
           82, 219, 45, 60, 186, 93, 114, 202, 103, 9, 191, 29, 148, 18, 27,
           243, 116, 136, 1, 180, 15, 111, 92, 2, 17, 55, 9, 3, 1, 127, 9,
           19, 49, 55, 25, 227, 225, 239, 217, 51, 49, 87, 73, 67, 65, 95,
           73, 179, 209, 215, 249, 227, 225, 175, 185, 147>>,
      sig |-> <<238, 99, 245, 135, 196, 61, 168, 137, 176, 61, 135, 156, 160, 58,
            252, 3, 212, 116, 115, 76, 180, 154, 134, 186, 40, 239, 109, 126,
            235, 147, 53, 169, 103, 235, 39, 26, 74, 201, 108, 214, 238, 51,
            66, 250, 27, 128, 225, 218, 49, 188, 25, 38, 7, 53, 30, 34, 228,
            133, 143, 143, 48, 34, 102, 1>>],
     [pk |-> <<138, 136, 227, 221, 116, 9, 241, 149, 253, 82, 219, 45, 60, 186,
            93, 114, 202, 103, 9, 191, 29, 148, 18, 27, 243, 116, 136, 1,
            180, 15, 111, 92>>,
      msg |-> <<67, 67, 77, 83, 1, 2, 1, 201, 202, 203, 204, 205, 206, 207, 208,
           209, 210, 211, 212, 0, 138, 136, 227, 221, 116, 9, 241, 149, 253,
           82, 219, 45, 60, 186, 93, 114, 202, 103, 9, 191, 29, 148, 18, 27,
           243, 116, 136, 1, 180, 15, 111, 92, 3, 63, 84, 113, 114, 91, 56,
           197, 206, 199, 220, 185, 74, 83, 112, 93, 171, 178, 249, 252, 255,
           182, 181, 136, 99, 138, 145, 148, 135, 158, 157, 144, 155>>,
      sig |-> <<110, 34, 173, 187, 122, 71, 113, 145, 151, 242, 149, 98, 64, 28,
            60, 226, 178, 232, 163, 27, 184, 179, 38, 69, 248, 95, 111, 218,
            12, 102, 214, 224, 135, 194, 236, 142, 37, 26, 113, 6, 82, 245,
            84, 61, 83, 76, 32, 133, 207, 202, 189, 232, 29, 85, 93, 5, 241,
            128, 210, 183, 104, 176, 203, 3>>],
     [pk |-> <<138, 136, 227, 221, 116, 9, 241, 149, 253, 82, 219, 45, 60, 186,
            93, 114, 202, 103, 9, 191, 29, 148, 18, 27, 243, 116, 136, 1,
            180, 15, 111, 92>>,
      msg |-> <<67, 67, 77, 83, 1, 3, 1, 201, 202, 203, 204, 205, 206, 207, 208,
           209, 210, 211, 212, 0, 138, 136, 227, 221, 116, 9, 241, 149, 253,
           82, 219, 45, 60, 186, 93, 114, 202, 103, 9, 191, 29, 148, 18, 27,
           243, 116, 136, 1, 180, 15, 111, 92, 1, 17, 55, 9, 3, 1, 127, 9,
           19, 49, 55, 25, 227, 225, 239, 217, 51, 49, 87, 73, 67, 65, 95,
           73, 179, 209, 215, 249, 227, 225, 175, 185, 147>>,
      sig |-> <<238, 99, 245, 135, 196, 61, 168, 137, 176, 61, 135, 156, 160, 58,
            252, 3, 212, 116, 115, 76, 180, 154, 134, 186, 40, 239, 109, 126,
            235, 147, 53, 169, 103, 235, 39, 26, 74, 201, 108, 214, 238, 51,
            66, 250, 27, 128, 225, 218, 49, 188, 25, 38, 7, 53, 30, 34, 228,
            133, 143, 143, 48, 34, 102, 1>>],
     [pk |-> <<138, 136, 227, 221, 116, 9, 241, 149, 253, 82, 219, 45, 60, 186,
            93, 114, 202, 103, 9, 191, 29, 148, 18, 27, 243, 116, 136, 1,
            180, 15, 111, 92>>,
      msg |-> <<67, 67, 77, 83, 1, 3, 1, 201, 202, 203, 204, 205, 206, 207, 208,
           209, 210, 211, 212, 0, 138, 136, 227, 221, 116, 9, 241, 149, 253,
           82, 219, 45, 60, 186, 93, 114, 202, 103, 9, 191, 29, 148, 18, 27,
           243, 116, 136, 1, 180, 15, 111, 92, 2, 63, 84, 113, 114, 91, 56,
           197, 206, 199, 220, 185, 74, 83, 112, 93, 171, 178, 249, 252, 255,
           182, 181, 136, 99, 138, 145, 148, 135, 158, 157, 144, 155>>,
      sig |-> <<110, 34, 173, 187, 122, 71, 113, 145, 151, 242, 149, 98, 64, 28,
            60, 226, 178, 232, 163, 27, 184, 179, 38, 69, 248, 95, 111, 218,
            12, 102, 214, 224, 135, 194, 236, 142, 37, 26, 113, 6, 82, 245,
            84, 61, 83, 76, 32, 133, 207, 202, 189, 232, 29, 85, 93, 5, 241,
            128, 210, 183, 104, 176, 203, 3>>],
     [pk |-> <<139, 136, 227, 221, 116, 9, 241, 149, 253, 82, 219, 45, 60, 186,
            93, 114, 202, 103, 9, 191, 29, 148, 18, 27, 243, 116, 136, 1,
            180, 15, 111, 92>>,
      msg |-> <<67, 67, 77, 83, 1, 1, 1, 201, 202, 203, 204, 205, 206, 207, 208,
           209, 210, 211, 212, 0, 139, 136, 227, 221, 116, 9, 241, 149, 253,
           82, 219, 45, 60, 186, 93, 114, 202, 103, 9, 191, 29, 148, 18, 27,
           243, 116, 136, 1, 180, 15, 111, 92, 1, 11, 22, 33, 44, 55, 66, 77,
           88, 99, 110, 121, 132, 143, 154, 165, 176, 187, 198, 209, 220,
           231, 242, 253, 8, 19, 30, 41, 52, 63, 74, 85, 96>>,
      sig |-> <<97, 240, 58, 227, 5, 140, 55, 224, 159, 111, 45, 173, 243, 154,
            126, 66, 24, 103, 51, 116, 220, 196, 249, 218, 161, 22, 119, 76,
            113, 80, 242, 85, 217, 240, 148, 51, 168, 101, 169, 112, 226, 59,
            109, 35, 228, 0, 75, 177, 71, 21, 149, 25, 205, 207, 68, 102, 24,
            67, 69, 181, 10, 112, 24, 7>>],
     [pk |-> <<139, 136, 227, 221, 116, 9, 241, 149, 253, 82, 219, 45, 60, 186,
            93, 114, 202, 103, 9, 191, 29, 148, 18, 27, 243, 116, 136, 1,
            180, 15, 111, 92>>,
      msg |-> <<67, 67, 77, 83, 1, 1, 1, 201, 202, 203, 204, 205, 206, 207, 208,
           209, 210, 211, 212, 0, 139, 136, 227, 221, 116, 9, 241, 149, 253,
           82, 219, 45, 60, 186, 93, 114, 202, 103, 9, 191, 29, 148, 18, 27,
           243, 116, 136, 1, 180, 15, 111, 92, 2, 11, 22, 33, 44, 55, 66, 77,
           88, 99, 110, 121, 132, 143, 154, 165, 176, 187, 198, 209, 220,
           231, 242, 253, 8, 19, 30, 41, 52, 63, 74, 85, 96>>,
      sig |-> <<133, 46, 122, 130, 197, 163, 111, 183, 83, 219, 86, 8, 209, 62,
            185, 58, 55, 143, 86, 95, 162, 123, 104, 151, 31, 79, 5, 211,
            115, 218, 210, 210, 107, 83, 63, 188, 89, 111, 243, 207, 167,
            207, 253, 187, 255, 158, 229, 205, 31, 114, 46, 26, 113, 227,
            255, 86, 140, 42, 37, 189, 8, 143, 25, 3>>],
     [pk |-> <<139, 136, 227, 221, 116, 9, 241, 149, 253, 82, 219, 45, 60, 186,
            93, 114, 202, 103, 9, 191, 29, 148, 18, 27, 243, 116, 136, 1,
            180, 15, 111, 92>>,
      msg |-> <<67, 67, 77, 83, 1, 2, 1, 201, 202, 203, 204, 205, 206, 207, 208,
           209, 210, 211, 212, 0, 139, 136, 227, 221, 116, 9, 241, 149, 253,
           82, 219, 45, 60, 186, 93, 114, 202, 103, 9, 191, 29, 148, 18, 27,
           243, 116, 136, 1, 180, 15, 111, 92, 1, 17, 55, 9, 3, 1, 127, 9,
           19, 49, 55, 25, 227, 225, 239, 217, 51, 49, 87, 73, 67, 65, 95,
           73, 179, 209, 215, 249, 227, 225, 175, 185, 147>>,
      sig |-> <<238, 99, 245, 135, 196, 61, 168, 137, 176, 61, 135, 156, 160, 58,
            252, 3, 212, 116, 115, 76, 180, 154, 134, 186, 40, 239, 109, 126,
            235, 147, 53, 169, 103, 235, 39, 26, 74, 201, 108, 214, 238, 51,
            66, 250, 27, 128, 225, 218, 49, 188, 25, 38, 7, 53, 30, 34, 228,
            133, 143, 143, 48, 34, 102, 1>>],
     [pk |-> <<139, 136, 227, 221, 116, 9, 241, 149, 253, 82, 219, 45, 60, 186,
            93, 114, 202, 103, 9, 191, 29, 148, 18, 27, 243, 116, 136, 1,
            180, 15, 111, 92>>,
      msg |-> <<67, 67, 77, 83, 1, 2, 1, 201, 202, 203, 204, 205, 206, 207, 208,
           209, 210, 211, 212, 0, 139, 136, 227, 221, 116, 9, 241, 149, 253,
           82, 219, 45, 60, 186, 93, 114, 202, 103, 9, 191, 29, 148, 18, 27,
           243, 116, 136, 1, 180, 15, 111, 92, 2, 63, 84, 113, 114, 91, 56,
           197, 206, 199, 220, 185, 74, 83, 112, 93, 171, 178, 249, 252, 255,
           182, 181, 136, 99, 138, 145, 148, 135, 158, 157, 144, 155>>,
      sig |-> <<110, 34, 173, 187, 122, 71, 113, 145, 151, 242, 149, 98, 64, 28,
            60, 226, 178, 232, 163, 27, 184, 179, 38, 69, 248, 95, 111, 218,
            12, 102, 214, 224, 135, 194, 236, 142, 37, 26, 113, 6, 82, 245,
            84, 61, 83, 76, 32, 133, 207, 202, 189, 232, 29, 85, 93, 5, 241,
            128, 210, 183, 104, 176, 203, 3>>],
     [pk |-> <<138, 136, 227, 221, 116, 9, 241, 149, 253, 82, 219, 45, 60, 186,
            93, 114, 202, 103, 9, 191, 29, 148, 18, 27, 243, 116, 136, 1,
            180, 15, 111, 92>>,
      msg |-> <<67, 67, 77, 1, 0, 1, 201, 202, 203, 204, 205, 206, 207, 208, 209,
           210, 211, 212, 138, 136, 227, 221, 116, 9, 241, 149, 253, 82, 219,
           45, 60, 186, 93, 114, 202, 103, 9, 191, 29, 148, 18, 27, 243, 116,
           136, 1, 180, 15, 111, 92, 26, 163, 172, 131, 70, 0, 182, 134, 102,
           51, 12, 30, 160, 13, 1, 87, 163, 104, 209, 69, 181, 157, 73, 78,
           140, 50, 28, 238, 133, 49, 81, 3, 90, 115, 64, 185, 175, 108, 67,
           198, 51, 92, 215, 250, 226, 27, 75, 100, 235, 32, 128, 14, 4, 31,
           120, 47, 14, 69, 154, 18, 58, 109, 72, 224, 161, 11, 145, 226,
           148, 82, 250, 252, 206, 93, 9, 160, 98, 6, 200, 15, 58, 94, 72,
           100, 91, 255, 186, 99, 120, 155, 89, 25, 59, 199, 66, 93>>,
      sig |-> <<43, 74, 40, 82, 222, 220, 155, 254, 59, 12, 32, 195, 99, 107,
            155, 89, 133, 128, 231, 170, 44, 94, 152, 198, 187, 110, 168,
            154, 139, 176, 123, 41, 153, 31, 156, 157, 122, 131, 217, 234,
            25, 140, 89, 42, 160, 75, 160, 128, 36, 189, 141, 145, 22, 151,
            149, 114, 32, 108, 52, 152, 196, 109, 220, 15>>],
     [pk |-> <<138, 136, 227, 221, 116, 9, 241, 149, 253, 82, 219, 45, 60, 186,
            93, 114, 202, 103, 9, 191, 29, 148, 18, 27, 243, 116, 136, 1,
            180, 15, 111, 92>>,
      msg |-> <<67, 67, 77, 1, 0, 1, 201, 202, 203, 204, 205, 206, 207, 208, 209,
           210, 211, 212, 138, 136, 227, 221, 116, 9, 241, 149, 253, 82, 219,
           45, 60, 186, 93, 114, 202, 103, 9, 191, 29, 148, 18, 27, 243, 116,
           136, 1, 180, 15, 111, 92, 26, 163, 172, 131, 70, 0, 182, 134, 102,
           51, 12, 30, 160, 13, 1, 87, 163, 104, 209, 69, 181, 157, 73, 78,
           140, 50, 28, 238, 133, 49, 81, 3, 90, 115, 64, 185, 175, 108, 67,
           198, 51, 92, 215, 250, 226, 27, 75, 100, 235, 32, 128, 14, 4, 31,
           120, 47, 14, 69, 154, 18, 58, 109, 72, 224, 161, 11, 145, 226,
           148, 82, 250, 252, 206, 93, 9, 160, 98, 6, 200, 15, 58, 94, 72,
           100, 91, 255, 186, 99, 120, 155, 89, 25, 59, 199, 66, 93>>,
      sig |-> <<106, 137, 71, 189, 171, 160, 166, 133, 80, 1, 30, 157, 189, 61,
            191, 233, 184, 143, 58, 209, 84, 4, 240, 46, 143, 214, 234, 146,
            120, 97, 153, 31, 90, 168, 246, 167, 87, 150, 65, 175, 159, 141,
            239, 146, 225, 170, 168, 96, 247, 41, 175, 164, 37, 75, 95, 124,
            132, 42, 146, 150, 168, 244, 191, 13>>],
     [pk |-> <<138, 136, 227, 221, 116, 9, 241, 149, 253, 82, 219, 45, 60, 186,
            93, 114, 202, 103, 9, 191, 29, 148, 18, 27, 243, 116, 136, 1,
            180, 15, 111, 92>>,
      msg |-> <<67, 67, 77, 1, 1, 1, 201, 202, 203, 204, 205, 206, 207, 208, 209,
           210, 211, 212, 138, 136, 227, 221, 116, 9, 241, 149, 253, 82, 219,
           45, 60, 186, 93, 114, 202, 103, 9, 191, 29, 148, 18, 27, 243, 116,
           136, 1, 180, 15, 111, 92, 26, 163, 172, 131, 70, 0, 182, 134, 102,
           51, 12, 30, 160, 13, 1, 87, 163, 104, 209, 69, 181, 157, 73, 78,
           140, 50, 28, 238, 133, 49, 81, 3, 90, 115, 64, 185, 175, 108, 67,
           198, 51, 92, 215, 250, 226, 27, 75, 100, 235, 32, 128, 14, 4, 31,
           120, 47, 14, 69, 154, 18, 58, 109, 72, 224, 161, 11, 145, 226,
           148, 82, 250, 252, 206, 93, 9, 160, 98, 6, 200, 15, 58, 94, 72,
           100, 91, 255, 186, 99, 120, 155, 89, 25, 59, 199, 66, 93>>,
      sig |-> <<43, 74, 40, 82, 222, 220, 155, 254, 59, 12, 32, 195, 99, 107,
            155, 89, 133, 128, 231, 170, 44, 94, 152, 198, 187, 110, 168,
            154, 139, 176, 123, 41, 153, 31, 156, 157, 122, 131, 217, 234,
            25, 140, 89, 42, 160, 75, 160, 128, 36, 189, 141, 145, 22, 151,
            149, 114, 32, 108, 52, 152, 196, 109, 220, 15>>],
     [pk |-> <<138, 136, 227, 221, 116, 9, 241, 149, 253, 82, 219, 45, 60, 186,
            93, 114, 202, 103, 9, 191, 29, 148, 18, 27, 243, 116, 136, 1,
            180, 15, 111, 92>>,
      msg |-> <<67, 67, 77, 1, 1, 1, 201, 202, 203, 204, 205, 206, 207, 208, 209,
           210, 211, 212, 138, 136, 227, 221, 116, 9, 241, 149, 253, 82, 219,
           45, 60, 186, 93, 114, 202, 103, 9, 191, 29, 148, 18, 27, 243, 116,
           136, 1, 180, 15, 111, 92, 26, 163, 172, 131, 70, 0, 182, 134, 102,
           51, 12, 30, 160, 13, 1, 87, 163, 104, 209, 69, 181, 157, 73, 78,
           140, 50, 28, 238, 133, 49, 81, 3, 90, 115, 64, 185, 175, 108, 67,
           198, 51, 92, 215, 250, 226, 27, 75, 100, 235, 32, 128, 14, 4, 31,
           120, 47, 14, 69, 154, 18, 58, 109, 72, 224, 161, 11, 145, 226,
           148, 82, 250, 252, 206, 93, 9, 160, 98, 6, 200, 15, 59, 94, 72,
           100, 91, 255, 186, 99, 120, 155, 89, 25, 59, 199, 66, 93>>,
      sig |-> <<106, 137, 71, 189, 171, 160, 166, 133, 80, 1, 30, 157, 189, 61,
            191, 233, 184, 143, 58, 209, 84, 4, 240, 46, 143, 214, 234, 146,
            120, 97, 153, 31, 90, 168, 246, 167, 87, 150, 65, 175, 159, 141,
            239, 146, 225, 170, 168, 96, 247, 41, 175, 164, 37, 75, 95, 124,
            132, 42, 146, 150, 168, 244, 191, 13>>],
     [pk |-> <<138, 136, 227, 221, 116, 9, 241, 149, 253, 82, 219, 45, 60, 186,
            93, 114, 202, 103, 9, 191, 29, 148, 18, 27, 243, 116, 136, 1,
            180, 15, 111, 92>>,
      msg |-> <<67, 67, 77, 1, 2, 1, 201, 202, 203, 204, 205, 206, 207, 208, 209,
           210, 211, 212, 138, 136, 227, 221, 116, 9, 241, 149, 253, 82, 219,
           45, 60, 186, 93, 114, 202, 103, 9, 191, 29, 148, 18, 27, 243, 116,
           136, 1, 180, 15, 111, 92, 26, 163, 172, 131, 70, 0, 182, 134, 102,
           51, 12, 30, 160, 13, 1, 87, 163, 104, 209, 69, 181, 157, 73, 78,
           140, 50, 28, 238, 133, 49, 81, 3, 90, 115, 64, 185, 175, 108, 67,
           198, 51, 92, 215, 250, 226, 27, 75, 100, 235, 32, 128, 14, 4, 31,
           120, 47, 14, 69, 154, 18, 58, 109, 72, 224, 161, 11, 145, 226,
           148, 82, 250, 252, 206, 93, 9, 160, 98, 6, 200, 15, 58, 94, 72,
           100, 91, 255, 186, 99, 120, 155, 89, 25, 59, 199, 66, 93>>,
      sig |-> <<106, 137, 71, 189, 171, 160, 166, 133, 80, 1, 30, 157, 189, 61,
            191, 233, 184, 143, 58, 209, 84, 4, 240, 46, 143, 214, 234, 146,
            120, 97, 153, 31, 90, 168, 246, 167, 87, 150, 65, 175, 159, 141,
            239, 146, 225, 170, 168, 96, 247, 41, 175, 164, 37, 75, 95, 124,
            132, 42, 146, 150, 168, 244, 191, 13>>],
     [pk |-> <<138, 136, 227, 221, 116, 9, 241, 149, 253, 82, 219, 45, 60, 186,
            93, 114, 202, 103, 9, 191, 29, 148, 18, 27, 243, 116, 136, 1,
            180, 15, 111, 92>>,
      msg |-> <<67, 67, 77, 1, 2, 1, 201, 202, 203, 204, 205, 206, 207, 208, 209,
           210, 211, 212, 138, 136, 227, 221, 116, 9, 241, 149, 253, 82, 219,
           45, 60, 186, 93, 114, 202, 103, 9, 191, 29, 148, 18, 27, 243, 116,
           136, 1, 180, 15, 111, 92, 26, 163, 172, 131, 70, 0, 182, 134, 102,
           51, 12, 30, 160, 13, 1, 87, 163, 104, 209, 69, 181, 157, 73, 78,
           140, 50, 28, 238, 133, 49, 81, 3, 90, 115, 64, 185, 175, 108, 67,
           198, 51, 92, 215, 250, 226, 27, 75, 100, 235, 32, 128, 14, 4, 31,
           120, 47, 14, 69, 154, 18, 58, 109, 72, 224, 161, 11, 145, 226,
           148, 82, 250, 252, 206, 93, 9, 160, 98, 6, 200, 15, 59, 94, 72,
           100, 91, 255, 186, 99, 120, 155, 89, 25, 59, 199, 66, 93>>,
      sig |-> <<43, 74, 40, 82, 222, 220, 155, 254, 59, 12, 32, 195, 99, 107,
            155, 89, 133, 128, 231, 170, 44, 94, 152, 198, 187, 110, 168,
            154, 139, 176, 123, 41, 153, 31, 156, 157, 122, 131, 217, 234,
            25, 140, 89, 42, 160, 75, 160, 128, 36, 189, 141, 145, 22, 151,
            149, 114, 32, 108, 52, 152, 196, 109, 220, 15>>],
     [pk |-> <<138, 136, 227, 221, 116, 9, 241, 149, 253, 82, 219, 45, 60, 186,
            93, 114, 202, 103, 9, 191, 29, 148, 18, 27, 243, 116, 136, 1,
            180, 15, 111, 92>>,
      msg |-> <<67, 67, 77, 1, 3, 1, 201, 202, 203, 204, 205, 206, 207, 208, 209,
           210, 211, 212, 138, 136, 227, 221, 116, 9, 241, 149, 253, 82, 219,
           45, 60, 186, 93, 114, 202, 103, 9, 191, 29, 148, 18, 27, 243, 116,
           136, 1, 180, 15, 111, 92, 26, 163, 172, 131, 70, 0, 182, 134, 102,
           51, 12, 30, 160, 13, 1, 87, 163, 104, 209, 69, 181, 157, 73, 78,
           140, 50, 28, 238, 133, 49, 81, 3, 90, 115, 64, 185, 175, 108, 67,
           198, 51, 92, 215, 250, 226, 27, 75, 100, 235, 32, 128, 14, 4, 31,
           120, 47, 14, 69, 154, 18, 58, 109, 72, 224, 161, 11, 145, 226,
           148, 82, 250, 252, 206, 93, 9, 160, 98, 6, 200, 15, 58, 94, 72,
           100, 91, 255, 186, 99, 120, 155, 89, 25, 59, 199, 66, 93>>,
      sig |-> <<43, 74, 40, 82, 222, 220, 155, 254, 59, 12, 32, 195, 99, 107,
            155, 89, 133, 128, 231, 170, 44, 94, 152, 198, 187, 110, 168,
            154, 139, 176, 123, 41, 153, 31, 156, 157, 122, 131, 217, 234,
            25, 140, 89, 42, 160, 75, 160, 128, 36, 189, 141, 145, 22, 151,
            149, 114, 32, 108, 52, 152, 196, 109, 220, 15>>],
     [pk |-> <<139, 136, 227, 221, 116, 9, 241, 149, 253, 82, 219, 45, 60, 186,
            93, 114, 202, 103, 9, 191, 29, 148, 18, 27, 243, 116, 136, 1,
            180, 15, 111, 92>>,
      msg |-> <<67, 67, 77, 1, 1, 1, 201, 202, 203, 204, 205, 206, 207, 208, 209,
           210, 211, 212, 139, 136, 227, 221, 116, 9, 241, 149, 253, 82, 219,
           45, 60, 186, 93, 114, 202, 103, 9, 191, 29, 148, 18, 27, 243, 116,
           136, 1, 180, 15, 111, 92, 26, 163, 172, 131, 70, 0, 182, 134, 102,
           51, 12, 30, 160, 13, 1, 87, 163, 104, 209, 69, 181, 157, 73, 78,
           140, 50, 28, 238, 133, 49, 81, 3, 90, 115, 64, 185, 175, 108, 67,
           198, 51, 92, 215, 250, 226, 27, 75, 100, 235, 32, 128, 14, 4, 31,
           120, 47, 14, 69, 154, 18, 58, 109, 72, 224, 161, 11, 145, 226,
           148, 82, 250, 252, 206, 93, 9, 160, 98, 6, 200, 15, 58, 94, 72,
           100, 91, 255, 186, 99, 120, 155, 89, 25, 59, 199, 66, 93>>,
      sig |-> <<106, 137, 71, 189, 171, 160, 166, 133, 80, 1, 30, 157, 189, 61,
            191, 233, 184, 143, 58, 209, 84, 4, 240, 46, 143, 214, 234, 146,
            120, 97, 153, 31, 90, 168, 246, 167, 87, 150, 65, 175, 159, 141,
            239, 146, 225, 170, 168, 96, 247, 41, 175, 164, 37, 75, 95, 124,
            132, 42, 146, 150, 168, 244, 191, 13>>],
     [pk |-> <<139, 136, 227, 221, 116, 9, 241, 149, 253, 82, 219, 45, 60, 186,
            93, 114, 202, 103, 9, 191, 29, 148, 18, 27, 243, 116, 136, 1,
            180, 15, 111, 92>>,
      msg |-> <<67, 67, 77, 1, 2, 1, 201, 202, 203, 204, 205, 206, 207, 208, 209,
           210, 211, 212, 139, 136, 227, 221, 116, 9, 241, 149, 253, 82, 219,
           45, 60, 186, 93, 114, 202, 103, 9, 191, 29, 148, 18, 27, 243, 116,
           136, 1, 180, 15, 111, 92, 26, 163, 172, 131, 70, 0, 182, 134, 102,
           51, 12, 30, 160, 13, 1, 87, 163, 104, 209, 69, 181, 157, 73, 78,
           140, 50, 28, 238, 133, 49, 81, 3, 90, 115, 64, 185, 175, 108, 67,
           198, 51, 92, 215, 250, 226, 27, 75, 100, 235, 32, 128, 14, 4, 31,
           120, 47, 14, 69, 154, 18, 58, 109, 72, 224, 161, 11, 145, 226,
           148, 82, 250, 252, 206, 93, 9, 160, 98, 6, 200, 15, 58, 94, 72,
           100, 91, 255, 186, 99, 120, 155, 89, 25, 59, 199, 66, 93>>,
      sig |-> <<43, 74, 40, 82, 222, 220, 155, 254, 59, 12, 32, 195, 99, 107,
            155, 89, 133, 128, 231, 170, 44, 94, 152, 198, 187, 110, 168,
            154, 139, 176, 123, 41, 153, 31, 156, 157, 122, 131, 217, 234,
            25, 140, 89, 42, 160, 75, 160, 128, 36, 189, 141, 145, 22, 151,
            149, 114, 32, 108, 52, 152, 196, 109, 220, 15>>]}

\* pub_key.verify(msg, &signature)
Verify(pk, msg, sig) ==
    IF \E e \in KnownSignatures : PublicKeyBytes(e.kp) = pk /\ e.msg = msg /\ e.sig = sig
    THEN TRUE
    ELSE IF [pk |-> pk, msg |-> msg, sig |-> sig] \in KnownRejections
    THEN FALSE
    ELSE Ed25519Verify(pk, msg, sig)

(***************************************************************************)
(* Options: <<>> is None, <<v>> is Some(v).                                *)
(***************************************************************************)
None == <<>>
Some(v) == <<v>>
IsSome(o) == Len(o) = 1
Unwrap(o) == o[1]

(***************************************************************************)
(* Container encoding (Encrypt).                                           *)
(***************************************************************************)
\* construct_header_share
construct_header_share(threshold, is_signed, nonce) ==
    HEADER_SHARE \o <<ALGO_VERSION>> \o <<threshold>>
        \o <<IF is_signed THEN 1 ELSE 0>> \o nonce \o <<0>>

\* share_signable: the share header, the public key, the share bytes
ShareSignable(share_header, pub_bytes, s) == share_header \o pub_bytes \o s

\* share_full as written: header, then public key and signature when
\* signing, then the share bytes
ShareFull(share_header, sign, pub_bytes, signature, s) ==
    share_header \o (IF sign THEN pub_bytes \o signature ELSE <<>>) \o s

\* enc_file before the signature: "CCM", version, threshold, flag, nonce
FileHeader(threshold, sign, nonce) ==
    HEADER_FILE \o <<ALGO_VERSION>> \o <<threshold>>
        \o <<IF sign THEN 1 ELSE 0>> \o nonce

\* enc_file_signable: the header, the public key, the ciphertext
FileSignable(threshold, nonce, pub_bytes, file_encrypted) ==
    FileHeader(threshold, TRUE, nonce) \o pub_bytes \o file_encrypted

\* enc_file as written
EncFile(threshold, sign, nonce, pub_bytes, signature, file_encrypted) ==
    FileHeader(threshold, sign, nonce)
        \o (IF sign THEN pub_bytes \o signature ELSE <<>>) \o file_encrypted

(***************************************************************************)
(* Container decoding (Decrypt).                                           *)
(***************************************************************************)
\* is_encrypted: the header of the target file.  The byte that decides the
\* header's length is file[HEADER_IS_SIGNED_BYTE_FILE]; a slice past the end
\* of the file panics.
is_encrypted(file) ==
    IF Len(file) < HEADER_LENGTH_FILE
    THEN [ok |-> FALSE, panic |-> FALSE, header |-> <<>>,
          err |-> "File not encrypted (smaller than CCM header)"]
    ELSE IF Slice(file, 0, Len(HEADER_FILE)) # HEADER_FILE
    THEN [ok |-> FALSE, panic |-> FALSE, header |-> <<>>,
          err |-> "File not encrypted (CCM header missing)"]
    ELSE IF At(file, HEADER_IS_SIGNED_BYTE_FILE) # 0
    THEN IF Len(file) < HEADER_LENGTH_FILE + PUBLIC_KEY_LENGTH + SIGNATURE_LENGTH
         THEN [ok |-> FALSE, panic |-> TRUE, header |-> <<>>, err |-> "range end out of bounds"]
         ELSE [ok |-> TRUE, panic |-> FALSE, err |-> "",
               header |-> Slice(file, 0, HEADER_LENGTH_FILE + PUBLIC_KEY_LENGTH + SIGNATURE_LENGTH)]
    ELSE [ok |-> TRUE, panic |-> FALSE, err |-> "",
          header |-> Slice(file, 0, HEADER_LENGTH_FILE)]

ShareErr(msg) ==
    [ok |-> FALSE, err |-> msg, threshold |-> 0, is_signed |-> FALSE, nonce |-> <<>>,
     pub_key |-> None, signature |-> None, share_data |-> [x |-> 0, y |-> <<>>]]

\* the part of share_from_file after the nonce matched
ShareBody(share_header, share_threshold, share_nonce) ==
    LET share_is_signed == At(share_header, HEADER_IS_SIGNED_BYTE_SHARE - 1) # 0
        signedLen == HEADER_LENGTH_SHARE + PUBLIC_KEY_LENGTH + SIGNATURE_LENGTH
    IN  IF share_is_signed /\ Len(share_header) < signedLen
        THEN ShareErr("Invalid share (file smaller than signed CCMS header)")
        ELSE LET pk == IF share_is_signed
                       THEN PublicKeyFromBytes(Slice(share_header, HEADER_LENGTH_SHARE,
                                HEADER_LENGTH_SHARE + PUBLIC_KEY_LENGTH))
                       ELSE [ok |-> TRUE, bytes |-> <<>>]
                 sig == IF share_is_signed
                        THEN SignatureFromBytes(Slice(share_header,
                                 HEADER_LENGTH_SHARE + PUBLIC_KEY_LENGTH, signedLen))
                        ELSE [ok |-> TRUE, bytes |-> <<>>]
                 split_length == IF share_is_signed THEN signedLen ELSE HEADER_LENGTH_SHARE
                 found_share == ShareTryFrom(Slice(share_header, split_length, Len(share_header)))
             IN  IF ~pk.ok THEN ShareErr("Invalid share (bad public key)")
                 ELSE IF ~sig.ok THEN ShareErr("Invalid share (bad signature)")
                 ELSE IF ~found_share.ok THEN ShareErr("A Share must be at least 2 bytes long")
                 ELSE [ok |-> TRUE, err |-> "",
                       threshold |-> share_threshold,
                       is_signed |-> share_is_signed,
                       nonce |-> share_nonce,
                       pub_key |-> IF share_is_signed THEN Some(pk.bytes) ELSE None,
                       signature |-> IF share_is_signed THEN Some(sig.bytes) ELSE None,
                       share_data |-> [x |-> found_share.x, y |-> found_share.y]]

\* A mutant of share_from_file: the nonce is not compared.
share_from_file_any_nonce(share_header, nonce) ==
    IF Len(share_header) < HEADER_LENGTH_SHARE
    THEN ShareErr("Invalid share (file smaller than CCMS header)")
    ELSE IF Slice(share_header, 0, Len(HEADER_SHARE)) # HEADER_SHARE
    THEN ShareErr("Invalid share (CCMS header missing)")
    ELSE ShareBody(share_header, At(share_header, Len(HEADER_SHARE) + 1),
                   Slice(share_header, HEADER_PRE_NONCE_BYTES_SHARE,
                         HEADER_PRE_NONCE_BYTES_SHARE + NONCE_LENGTH_BYTES))

\* share_from_file, on the bytes read_file returned
share_from_file(share_header, nonce) ==
    IF Len(share_header) < HEADER_LENGTH_SHARE
    THEN ShareErr("Invalid share (file smaller than CCMS header)")
    ELSE LET share_nonce == Slice(share_header, HEADER_PRE_NONCE_BYTES_SHARE,
                                  HEADER_PRE_NONCE_BYTES_SHARE + NONCE_LENGTH_BYTES)
             share_threshold == At(share_header, Len(HEADER_SHARE) + 1)
         IN  IF Slice(share_header, 0, Len(HEADER_SHARE)) # HEADER_SHARE
             THEN ShareErr("Invalid share (CCMS header missing)")
             ELSE IF share_nonce = nonce
             THEN ShareBody(share_header, share_threshold, share_nonce)
             ELSE ShareErr("Share does not match target file nonce")

(***************************************************************************)
(* Inputs: what the random generator may return, the plaintexts, and the   *)
(* ways the environment may fill the share directory and change the file   *)
(* container between Encrypt and Decrypt.                                  *)
(***************************************************************************)
\* OsRng.fill_bytes(&mut key)
Keys == {[i \in 1..KEY_LENGTH_BYTES |-> (i * 11) % 256]}

\* OsRng.fill_bytes(&mut nonce): one nonce that starts with a zero byte, one
\* that does not
Nonces == {[i \in 1..NONCE_LENGTH_BYTES |-> i - 1],
           [i \in 1..NONCE_LENGTH_BYTES |-> 200 + i]}

\* the dealer's random generator
PolySeeds == {5}

\* the empty file, a file that holds the container's own magic, and a file
\* long enough for its unsigned container to reach the length of a signed
\* header
Plaintexts ==
    {<<>>, <<67, 67, 77, 83, 0>>,
     [i \in 1..(PUBLIC_KEY_LENGTH + SIGNATURE_LENGTH - TAG_LENGTH) |-> (7 * i - 6) % 256]}

SetByte(bytes, offset, value) == [bytes EXCEPT ![offset + 1] = value]
Bump(bytes, offset) == SetByte(bytes, offset, (At(bytes, offset) + 1) % 256)
Truncate(bytes, n) == SubSeq(bytes, 1, IF n < Len(bytes) THEN n ELSE Len(bytes))

SignedShareFaults == {"strip", "badpk", "otherpk", "badsig", "resign"}
UnsignedShareFaults == {"mark"}
ShareFaults ==
    {"copy", "nonce", "magic", "short", "cut", "thr", "forge", "unreadable", "globerr"}
        \cup SignedShareFaults \cup UnsignedShareFaults

\* the share bytes of a share container, and its header
ContainerShare(bytes) ==
    IF At(bytes, HEADER_IS_SIGNED_BYTE_SHARE - 1) # 0
    THEN Slice(bytes, HEADER_LENGTH_SHARE + PUBLIC_KEY_LENGTH + SIGNATURE_LENGTH, Len(bytes))
    ELSE Slice(bytes, HEADER_LENGTH_SHARE, Len(bytes))

\* what the attacker signs when re-signing a share under another key
ResignMessage(bytes) ==
    ShareSignable(Slice(bytes, 0, HEADER_LENGTH_SHARE),
                  PublicKeyBytes(AttackerKeypair), ContainerShare(bytes))

\* The bytes of a directory entry: a share container Encrypt wrote, changed
\* by one fault.
FaultedShare(bytes, fault) ==
    CASE fault = "copy" -> bytes
      [] fault = "nonce" -> Bump(bytes, HEADER_PRE_NONCE_BYTES_SHARE + 1)
      [] fault = "magic" -> SetByte(bytes, Len(HEADER_SHARE) - 1, 0)
      [] fault = "short" -> Truncate(bytes, HEADER_LENGTH_SHARE - 1)
      [] fault = "cut" -> Truncate(bytes, HEADER_LENGTH_SHARE + 5)
      [] fault = "thr" -> Bump(bytes, Len(HEADER_SHARE) + 1)
      [] fault = "forge" -> Bump(bytes, Len(bytes) - KEY_LENGTH_BYTES - 1)
      [] fault = "mark" -> SetByte(bytes, HEADER_IS_SIGNED_BYTE_SHARE - 1, 1)
      [] fault = "strip" ->
            SetByte(Slice(bytes, 0, HEADER_LENGTH_SHARE), HEADER_IS_SIGNED_BYTE_SHARE - 1, 0)
                \o ContainerShare(bytes)
      [] fault = "badpk" -> SetByte(bytes, HEADER_LENGTH_SHARE, 255)
      [] fault = "otherpk" -> Bump(bytes, HEADER_LENGTH_SHARE)
      [] fault = "badsig" ->
            SetByte(bytes, HEADER_LENGTH_SHARE + PUBLIC_KEY_LENGTH + SIGNATURE_LENGTH - 1, 255)
      [] fault = "resign" ->
            Slice(bytes, 0, HEADER_LENGTH_SHARE) \o PublicKeyBytes(AttackerKeypair)
                \o SignatureOf(AttackerKeypair, ResignMessage(bytes))
                \o ContainerShare(bytes)
      [] OTHER -> bytes

SignedFileFaults == {"strip", "badpk", "otherpk", "badsig", "cut"}
UnsignedFileFaults == {"mark"}
FileFaults ==
    {"none", "short", "magic", "flip", "thr"} \cup SignedFileFaults \cup UnsignedFileFaults

\* The bytes of the target file: the file container Encrypt wrote, changed
\* by one fault.
FaultedFile(bytes, fault) ==
    CASE fault = "none" -> bytes
      [] fault = "short" -> Truncate(bytes, HEADER_LENGTH_FILE - 1)
      [] fault = "cut" -> Truncate(bytes, HEADER_LENGTH_FILE + PUBLIC_KEY_LENGTH)
      [] fault = "magic" -> SetByte(bytes, Len(HEADER_FILE) - 1, 0)
      [] fault = "flip" -> Bump(bytes, Len(bytes) - TAG_LENGTH)
      [] fault = "thr" -> Bump(bytes, Len(HEADER_FILE) + 1)
      [] fault = "mark" -> SetByte(bytes, HEADER_IS_SIGNED_BYTE_FILE - 1, 1)
      [] fault = "strip" ->
            SetByte(Slice(bytes, 0, HEADER_LENGTH_FILE), HEADER_IS_SIGNED_BYTE_FILE - 1, 0)
                \o Slice(bytes, HEADER_LENGTH_FILE + PUBLIC_KEY_LENGTH + SIGNATURE_LENGTH,
                         Len(bytes))
      [] fault = "badpk" -> SetByte(bytes, HEADER_LENGTH_FILE, 255)
      [] fault = "otherpk" -> Bump(bytes, HEADER_LENGTH_FILE)
      [] fault = "badsig" ->
            SetByte(bytes, HEADER_LENGTH_FILE + PUBLIC_KEY_LENGTH + SIGNATURE_LENGTH - 1, 255)
      [] OTHER -> bytes

(***************************************************************************)
(* Initial state: the Encrypt command is about to run on some command line *)
(* and some target file.                                                   *)
(***************************************************************************)
NoEnc ==
    [key |-> <<>>, nonce |-> <<>>, seed |-> 0, shares |-> <<>>, recovered_key |-> <<>>,
     file_plaintext |-> <<>>, share_i |-> 1, file_encrypted |-> <<>>,
     recovered_shares |-> <<>>]

NoEnv == [strict |-> FALSE, ffault |-> "none", dir |-> <<>>]

NoShf == ShareErr("")

NoDec ==
    [target_algo_version |-> 0, threshold |-> 0, file_threshold |-> 0, is_signed |-> FALSE,
     nonce |-> <<>>, pub_key |-> None, signature |-> None, file_contents |-> <<>>,
     target_header |-> <<>>, shares |-> <<>>, pooled |-> <<>>, entry |-> 1, shf |-> NoShf,
     recovered_key |-> <<>>, file_plaintext |-> <<>>, processed |-> FALSE]

NoObs ==
    [exit |-> "", warnings |-> <<>>, prompts |-> <<>>, checked |-> <<>>,
     skipped |-> <<>>, scanned |-> FALSE, cipher_input |-> None,
     file_verified |-> None, recover_ok |-> None, answers |-> <<>>]

Init ==
    /\ pc = "enc_args"
    /\ args \in [players : 0..MaxPlayers, threshold : 0..MaxPlayers, sign : BOOLEAN]
    /\ target \in {[readable |-> FALSE, bytes |-> <<>>]}
                    \cup {[readable |-> TRUE, bytes |-> b] : b \in Plaintexts}
    /\ enc = NoEnc
    /\ disk = [shares |-> <<>>, file |-> None, plain |-> None]
    /\ sigLog = <<>>
    /\ aeadLog = <<>>
    /\ env = NoEnv
    /\ dec = NoDec
    /\ obs = NoObs

(***************************************************************************)
(* Encrypt (main, Commands::Encrypt).                                      *)
(***************************************************************************)
\* A mutant of ArgsRejected: a zero threshold passes.
ArgsRejectedZeroPasses(players, threshold) == players < threshold \/ players < 1

\* the checks "against bad things" on players and threshold
ArgsRejected(players, threshold) ==
    players < threshold \/ players < 1 \/ threshold < 1

EncCheckArgs ==
    /\ pc = "enc_args"
    /\ IF ArgsRejected(args.players, args.threshold)
       THEN /\ pc' = "enc_exit"
            /\ obs' = [obs EXCEPT !.exit = "bad arguments"]
       ELSE /\ pc' = "enc_generate"
            /\ obs' = obs
    /\ UNCHANGED <<args, target, enc, disk, sigLog, aeadLog, env, dec>>

\* key, nonce and signing keypair from the random generator
EncGenerate ==
    /\ pc = "enc_generate"
    /\ \E key \in Keys, nonce \in Nonces, seed \in PolySeeds :
          enc' = [enc EXCEPT !.key = key, !.nonce = nonce, !.seed = seed]
    /\ pc' = "enc_split"
    /\ UNCHANGED <<args, target, disk, sigLog, aeadLog, env, dec, obs>>

\* A mutant of SelfCheckShares: the first threshold shares.
SelfCheckSharesQuorum(shares, threshold) == SubSeq(shares, 1, threshold)

\* the shares the self-check of Encrypt recovers from: all of them
SelfCheckShares(shares, threshold) == shares

\* split the key, then recover it from the shares "for good measure"
EncSplit ==
    /\ pc = "enc_split"
    /\ LET dealt == Dealer(enc.key, args.threshold, args.players, enc.seed)
           shares == [i \in 1..Len(dealt) |-> ShareToBytes(dealt[i])]
           recovered_shares ==
               [i \in 1..Len(shares) |->
                   LET sh == ShareTryFrom(shares[i]) IN [x |-> sh.x, y |-> sh.y]]
           checked == SelfCheckShares(recovered_shares, args.threshold)
           recovered == SharksRecover(args.threshold, checked)
       IN  IF ~recovered.ok \/ recovered.key # enc.key
           THEN /\ pc' = "enc_panic"
                /\ enc' = [enc EXCEPT !.shares = shares, !.recovered_shares = checked]
                /\ obs' = [obs EXCEPT !.exit = "Unable to recover the key from our shares"]
           ELSE /\ pc' = "enc_read"
                /\ enc' = [enc EXCEPT !.shares = shares, !.recovered_key = recovered.key,
                              !.recovered_shares = checked]
                /\ obs' = obs
    /\ UNCHANGED <<args, target, disk, sigLog, aeadLog, env, dec>>

\* read_file(&target_file) before any share is saved
EncReadPlaintext ==
    /\ pc = "enc_read"
    /\ IF target.readable
       THEN /\ pc' = "enc_shares"
            /\ enc' = [enc EXCEPT !.file_plaintext = target.bytes]
            /\ obs' = obs
       ELSE /\ pc' = "enc_exit"
            /\ enc' = enc
            /\ obs' = [obs EXCEPT !.exit = "Could not open file"]
    /\ UNCHANGED <<args, target, disk, sigLog, aeadLog, env, dec>>

\* one turn of "for s in shares": sign when asked to, write the container
EncWriteShare ==
    /\ pc = "enc_shares"
    /\ enc.share_i <= Len(enc.shares)
    /\ LET s == enc.shares[enc.share_i]
           share_header == construct_header_share(args.threshold, args.sign, enc.nonce)
           pub == PublicKeyBytes(HonestKeypair)
           share_signable == ShareSignable(share_header, pub, s)
       IN  /\ sigLog' = IF args.sign THEN SignLog(sigLog, HonestKeypair, share_signable)
                        ELSE sigLog
           /\ \E signature \in {IF args.sign
                                 THEN SignatureOf(HonestKeypair, share_signable)
                                 ELSE <<>>} :
                 disk' = [disk EXCEPT !.shares =
                             Append(@, ShareFull(share_header, args.sign, pub, signature, s))]
    /\ enc' = [enc EXCEPT !.share_i = @ + 1]
    /\ pc' = "enc_shares"
    /\ UNCHANGED <<args, target, aeadLog, env, dec, obs>>

\* chacha_encrypt(recovered_key, nonce, &file_plaintext), after the last share
EncCipher ==
    /\ pc = "enc_shares"
    /\ enc.share_i > Len(enc.shares)
    /\ LET res == chacha_encrypt(enc.recovered_key, enc.nonce, enc.file_plaintext)
       IN  IF res.ok
           THEN /\ pc' = "enc_write"
                /\ enc' = [enc EXCEPT !.file_encrypted = res.ciphertext]
                /\ obs' = obs
           ELSE /\ pc' = "enc_panic"
                /\ enc' = enc
                /\ obs' = [obs EXCEPT !.exit = "decrypted ciphertext does not match plaintext"]
    /\ aeadLog' = AeadLogAfter(aeadLog, enc.recovered_key, enc.nonce, enc.file_plaintext)
    /\ UNCHANGED <<args, target, disk, sigLog, env, dec>>

\* build enc_file, sign it when asked to, write it
EncWriteFile ==
    /\ pc = "enc_write"
    /\ LET pub == PublicKeyBytes(HonestKeypair)
           signable == FileSignable(args.threshold, enc.nonce, pub, enc.file_encrypted)
       IN  /\ sigLog' = IF args.sign THEN SignLog(sigLog, HonestKeypair, signable) ELSE sigLog
           /\ \E signature \in {IF args.sign THEN SignatureOf(HonestKeypair, signable)
                                 ELSE <<>>} :
                 disk' = [disk EXCEPT !.file =
                             Some(EncFile(args.threshold, args.sign, enc.nonce, pub,
                                          signature, enc.file_encrypted))]
    /\ pc' = "enc_done"
    /\ UNCHANGED <<args, target, enc, aeadLog, env, dec, obs>>

(***************************************************************************)
(* The environment between the two commands: Decrypt is started, strict or *)
(* not, on the file container (as written, or with one fault) and on a     *)
(* share directory that holds some of the share containers in name order   *)
(* and, when the file is as written, at most one more entry: a share       *)
(* container with one fault, listed first or last.                         *)
(***************************************************************************)
RECURSIVE Ascending(_, _)
Ascending(S, n) ==
    IF n = 0 THEN <<>>
    ELSE IF n \in S THEN Append(Ascending(S, n - 1), [base |-> n, fault |-> "none"])
    ELSE Ascending(S, n - 1)

\* faults whose outcome does not depend on which share container they hit
BaseFreeFaults ==
    {"nonce", "magic", "short", "unreadable", "globerr", "mark", "badpk", "badsig"}

OddEntries ==
    {e \in [base : 1..args.players, fault : ShareFaults] :
        /\ e.fault \in SignedShareFaults => args.sign
        /\ e.fault \in UnsignedShareFaults => ~args.sign
        /\ e.fault \in BaseFreeFaults => e.base = 1}

Directories ==
    LET plain == {Ascending(S, args.players) : S \in SUBSET (1..args.players)}
    IN  plain \cup {<<e>> \o d : e \in OddEntries, d \in plain}
              \cup {d \o <<e>> : e \in OddEntries, d \in plain}

EnvFileFaults ==
    {f \in FileFaults :
        /\ f \in SignedFileFaults => args.sign
        /\ f \in UnsignedFileFaults => ~args.sign}

EnvPrepare ==
    /\ pc = "enc_done"
    /\ \E strict \in BOOLEAN, ffault \in EnvFileFaults, dir \in Directories :
          /\ ffault # "none" => \A i \in 1..Len(dir) : dir[i].fault = "none"
          /\ env' = [strict |-> strict, ffault |-> ffault, dir |-> dir]
          /\ sigLog' =
                IF \E i \in 1..Len(dir) : dir[i].fault = "resign"
                THEN LET i == CHOOSE i \in 1..Len(dir) : dir[i].fault = "resign"
                     IN  SignLog(sigLog, AttackerKeypair, ResignMessage(disk.shares[dir[i].base]))
                ELSE sigLog
    /\ pc' = "dec_read"
    /\ UNCHANGED <<args, target, enc, disk, aeadLog, dec, obs>>

\* the bytes read_file returns for the target file and for a directory entry
TargetFileBytes == FaultedFile(Unwrap(disk.file), env.ffault)
EntryBytes(e) == FaultedShare(disk.shares[e.base], e.fault)

(***************************************************************************)
(* Decrypt (main, Commands::Decrypt): the target file.                     *)
(***************************************************************************)
Warn(o, entry, kind) == [o EXCEPT !.warnings = Append(@, [entry |-> entry, kind |-> kind])]
Ask(o, entry, kind) == [o EXCEPT !.prompts = Append(@, [entry |-> entry, kind |-> kind])]
Exit(o, why) == [o EXCEPT !.exit = why]
\* what the operator typed at a threshold prompt: nothing, or a number
Answer(o, entry, empty) ==
    [o EXCEPT !.answers = Append(@, [entry |-> entry, empty |-> empty])]

\* split_length of the target file
SplitLength(file_is_signed) ==
    IF file_is_signed
    THEN HEADER_LENGTH_FILE + PUBLIC_KEY_LENGTH + SIGNATURE_LENGTH
    ELSE HEADER_LENGTH_FILE

\* target_file.split_off(split_length)
FileContents(target_file, file_is_signed) ==
    Slice(target_file, SplitLength(file_is_signed), Len(target_file))

\* read the target file, check it with is_encrypted, take version, threshold,
\* nonce and the signed flag, and parse the public key of a signed file;
\* is_signed is file_is_signed, which the block yields as is_signed
DecReadTarget ==
    /\ pc = "dec_read"
    /\ LET target_file == TargetFileBytes
           he == is_encrypted(target_file)
           target_header == he.header
           file_is_signed_u8 == At(target_file, HEADER_IS_SIGNED_BYTE_FILE - 1)
           d1 == [dec EXCEPT
                    !.target_header = target_header,
                    !.target_algo_version = At(target_header, Len(HEADER_FILE)),
                    !.threshold = At(target_header, Len(HEADER_FILE) + 1),
                    !.file_threshold = At(target_header, Len(HEADER_FILE) + 1),
                    !.nonce = Slice(target_header, HEADER_PRE_NONCE_BYTES_FILE,
                                    HEADER_PRE_NONCE_BYTES_FILE + NONCE_LENGTH_BYTES)]
           \* file_is_signed = true, before the key and the signature are read
           d2 == [d1 EXCEPT !.is_signed = TRUE]
           pk == PublicKeyFromBytes(Slice(target_header, HEADER_LENGTH_FILE,
                                          HEADER_LENGTH_FILE + PUBLIC_KEY_LENGTH))
       IN  IF he.panic
           THEN pc' = "dec_panic" /\ dec' = dec /\ obs' = Exit(obs, he.err)
           ELSE IF ~he.ok
           THEN pc' = "dec_exit" /\ dec' = dec /\ obs' = Exit(obs, he.err)
           ELSE IF file_is_signed_u8 = 0
           THEN /\ pc' = "dec_scan"
                /\ dec' = [d1 EXCEPT !.file_contents = FileContents(target_file, FALSE),
                                     !.processed = TRUE]
                /\ obs' = obs
           ELSE IF Len(target_file) < HEADER_LENGTH_FILE + PUBLIC_KEY_LENGTH + SIGNATURE_LENGTH
           THEN /\ pc' = "dec_exit" /\ dec' = d2
                /\ obs' = Exit(obs, "Target file failed validation: smaller than signed CCM header")
           ELSE IF Len(target_header) < HEADER_LENGTH_FILE + PUBLIC_KEY_LENGTH
           THEN pc' = "dec_panic" /\ dec' = d2 /\ obs' = Exit(obs, "range end out of bounds")
           ELSE IF pk.ok
           THEN /\ pc' = "dec_sig"
                /\ dec' = [d2 EXCEPT !.pub_key = Some(pk.bytes)]
                /\ obs' = obs
           ELSE IF env.strict
           THEN /\ pc' = "dec_exit" /\ dec' = d1
                /\ obs' = Exit(Warn(obs, 0, "Target file has a bad public key"),
                               "Will not decrypt using tampered data in strict mode!")
           ELSE /\ pc' = "ask_pubkey" /\ dec' = d1
                /\ obs' = Ask(Warn(obs, 0, "Target file has a bad public key"), 0, "continue")
    /\ UNCHANGED <<args, target, enc, disk, sigLog, aeadLog, env>>

\* the operator answers ask_to_continue after the bad public key
DecAnswerPubkey ==
    /\ pc = "ask_pubkey"
    /\ \/ pc' = "dec_sig" /\ obs' = obs
       \/ pc' = "dec_abort" /\ obs' = Exit(obs, "Ctrl+C")
    /\ UNCHANGED <<args, target, enc, disk, sigLog, aeadLog, env, dec>>

\* parse the signature of a signed file, then split the contents off
DecParseSignature ==
    /\ pc = "dec_sig"
    /\ LET sig == SignatureFromBytes(Slice(dec.target_header,
                      HEADER_LENGTH_FILE + PUBLIC_KEY_LENGTH,
                      HEADER_LENGTH_FILE + PUBLIC_KEY_LENGTH + SIGNATURE_LENGTH))
       IN  IF sig.ok
           THEN /\ pc' = "dec_scan"
                /\ dec' = [dec EXCEPT !.signature = Some(sig.bytes),
                              !.file_contents = FileContents(TargetFileBytes, dec.is_signed),
                              !.processed = TRUE]
                /\ obs' = obs
           ELSE IF env.strict
           THEN /\ pc' = "dec_exit"
                /\ dec' = [dec EXCEPT !.is_signed = FALSE]
                /\ obs' = Exit(Warn(obs, 0, "Target file has a bad signature"),
                               "Will not decrypt using tampered data in strict mode!")
           ELSE /\ pc' = "ask_sig"
                /\ dec' = [dec EXCEPT !.is_signed = FALSE]
                /\ obs' = Ask(Warn(obs, 0, "Target file has a bad signature"), 0, "continue")
    /\ UNCHANGED <<args, target, enc, disk, sigLog, aeadLog, env>>

\* the operator answers ask_to_continue after the bad signature
DecAnswerSignature ==
    /\ pc = "ask_sig"
    /\ \/ /\ pc' = "dec_scan"
          /\ dec' = [dec EXCEPT !.file_contents = FileContents(TargetFileBytes, dec.is_signed),
                                  !.processed = TRUE]
          /\ obs' = obs
       \/ pc' = "dec_abort" /\ dec' = dec /\ obs' = Exit(obs, "Ctrl+C")
    /\ UNCHANGED <<args, target, enc, disk, sigLog, aeadLog, env>>

(***************************************************************************)
(* Decrypt: the scan of the share directory.                               *)
(***************************************************************************)
\* what the operator may type at the threshold prompt when it is a number:
\* any u8, 0 included
OverrideValues == 0..MaxPlayers

\* the bytes share_signature_verification verifies a share's signature on
ReconstructedShare(shf, share_pub_key) ==
    construct_header_share(shf.threshold, shf.is_signed, shf.nonce)
        \o share_pub_key \o ShareToBytes(shf.share_data)

\* share_signature_verification(is_signed, pub_key, &shf, &path, strict): the
\* warnings it prints, in order (in strict mode it dies with the first),
\* whether it panics, and whether it ends asking the operator to continue
share_signature_verification(is_signed, pub_key, shf, strict) ==
    IF ~IsSome(pub_key)
    THEN [panic |-> TRUE, warnings |-> <<>>, ask |-> FALSE, msg |-> None]
    ELSE IF ~IsSome(shf.pub_key)
    THEN [panic |-> FALSE, warnings |-> <<"Share is missing a public key">>,
          ask |-> FALSE, msg |-> None]
    ELSE IF ~IsSome(shf.signature)
    THEN [panic |-> FALSE, warnings |-> <<"Share is missing a signature">>,
          ask |-> FALSE, msg |-> None]
    ELSE LET share_pub_key == Unwrap(shf.pub_key)
             share_signature == Unwrap(shf.signature)
             reconstructed_share == ReconstructedShare(shf, share_pub_key)
             w1 == IF ~is_signed /\ shf.is_signed
                   THEN <<"Encrypted file is not signed, but this share believes it should be">>
                   ELSE <<>>
             w2 == IF share_pub_key # Unwrap(pub_key)
                   THEN <<"File and share do not use the same public key!">>
                   ELSE <<>>
             w3 == IF shf.is_signed
                      /\ ~Verify(share_pub_key, reconstructed_share, share_signature)
                   THEN <<"Share verification from public key failed!">>
                   ELSE <<>>
         IN  CHOOSE out \in
                 {[panic |-> FALSE,
                   warnings |-> IF strict /\ all # <<>> THEN <<all[1]>> ELSE all,
                   ask |-> all # <<>>,
                   msg |-> IF shf.is_signed /\ (strict => w1 \o w2 = <<>>)
                           THEN Some(reconstructed_share) ELSE None] :
                     all \in {w1 \o w2 \o w3}} : TRUE

RECURSIVE WarnAll(_, _, _)
WarnAll(o, entry, kinds) ==
    IF kinds = <<>> THEN o ELSE WarnAll(Warn(o, entry, Head(kinds)), entry, Tail(kinds))

\* shares.push(shf.share_data), and on to the next directory entry
Push(d, shf) ==
    [d EXCEPT !.shares = Append(@, shf.share_data), !.pooled = Append(@, d.entry),
              !.entry = @ + 1, !.shf = NoShf]

\* A mutant of SignatureGate: every share of a signed file is verified.
SignatureGateAnyShare(file_is_signed, share_is_signed) == file_is_signed

\* the test that sends a share to share_signature_verification
SignatureGate(file_is_signed, share_is_signed) == file_is_signed /\ share_is_signed

\* The share came back from share_from_file and its threshold is settled:
\* the signature cross-check, then the push.
AfterThreshold(d, o, shf) ==
    IF SignatureGate(d.is_signed, shf.is_signed)
    THEN \E v \in {share_signature_verification(d.is_signed, d.pub_key, shf, env.strict)} :
         \E o1 \in {WarnAll(IF IsSome(v.msg)
                            THEN [o EXCEPT !.checked = Append(@,
                                     [what |-> "share", entry |-> d.entry,
                                      msg |-> Unwrap(v.msg)])]
                            ELSE o,
                            d.entry, v.warnings)} :
             IF v.panic
             THEN pc' = "dec_panic" /\ dec' = d /\ obs' = Exit(o, "unwrap on None")
             ELSE IF v.warnings # <<>> /\ env.strict
             THEN /\ pc' = "dec_exit" /\ dec' = d
                  /\ obs' = Exit(o1, "Will not decrypt using tampered data in strict mode!")
             ELSE IF v.ask
             THEN /\ pc' = "ask_share"
                  /\ dec' = [d EXCEPT !.shf = shf]
                  /\ obs' = Ask(o1, d.entry, "continue")
             ELSE pc' = "dec_scan" /\ dec' = Push(d, shf) /\ obs' = o1
    ELSE pc' = "dec_scan" /\ dec' = Push(d, shf) /\ obs' = o

\* one turn of "for file in glob(..)": read the entry, parse it, compare
\* its threshold with the one in use
DecScanEntry ==
    /\ pc = "dec_scan"
    /\ dec.entry <= Len(env.dir)
    /\ \E e \in {env.dir[dec.entry]} :
       \E shf \in {share_from_file(EntryBytes(e), dec.nonce)} :
       LET next == [dec EXCEPT !.entry = @ + 1]
       IN  IF e.fault = "globerr"
           THEN /\ pc' = "dec_scan" /\ dec' = next
                /\ obs' = [obs EXCEPT !.skipped = Append(@,
                              [entry |-> dec.entry,
                               why |-> "Reading something in share directory failed"])]
           ELSE IF e.fault = "unreadable"
           THEN pc' = "dec_exit" /\ dec' = dec /\ obs' = Exit(obs, "Could not open file")
           ELSE IF ~shf.ok
           THEN /\ pc' = "dec_scan" /\ dec' = next
                /\ obs' = [obs EXCEPT !.skipped = Append(@,
                              [entry |-> dec.entry, why |-> shf.err])]
           ELSE IF shf.threshold # dec.threshold
           THEN /\ pc' = "ask_threshold"
                /\ dec' = [dec EXCEPT !.shf = shf]
                /\ obs' = Ask(Warn(obs, dec.entry, "Threshold mismatch"), dec.entry, "threshold")
           ELSE AfterThreshold(dec, obs, shf)
    /\ UNCHANGED <<args, target, enc, disk, sigLog, aeadLog, env>>

\* the operator answers the threshold prompt: nothing, a number, something
\* that is no number, or Ctrl+C
DecAnswerThreshold ==
    /\ pc = "ask_threshold"
    /\ \/ AfterThreshold(dec, Answer(obs, dec.entry, TRUE), dec.shf)
       \/ \E number \in OverrideValues :
             AfterThreshold([dec EXCEPT !.threshold = number],
                            Answer(obs, dec.entry, FALSE), dec.shf)
       \/ pc' = "dec_exit" /\ dec' = dec /\ obs' = Exit(obs, "That's not a threshold number")
       \/ pc' = "dec_abort" /\ dec' = dec /\ obs' = Exit(obs, "Ctrl+C")
    /\ UNCHANGED <<args, target, enc, disk, sigLog, aeadLog, env>>

\* the operator answers ask_to_continue at the end of
\* share_signature_verification
DecAnswerShare ==
    /\ pc = "ask_share"
    /\ \/ pc' = "dec_scan" /\ dec' = Push(dec, dec.shf) /\ obs' = obs
       \/ pc' = "dec_abort" /\ dec' = dec /\ obs' = Exit(obs, "Ctrl+C")
    /\ UNCHANGED <<args, target, enc, disk, sigLog, aeadLog, env>>

(***************************************************************************)
(* Decrypt: after the scan.                                                *)
(***************************************************************************)
\* the threshold byte of reconstructed_file: the variable threshold
ReconstructedFileThreshold(d) == d.threshold

\* reconstructed_file: "CCM", version, threshold, 1, nonce, public key,
\* contents
ReconstructedFile(d) ==
    HEADER_FILE \o <<d.target_algo_version>> \o <<ReconstructedFileThreshold(d)>> \o <<1>>
        \o d.nonce \o Unwrap(d.pub_key) \o d.file_contents

\* the zero-share check, then the file's signature
DecAfterScan ==
    /\ pc = "dec_scan"
    /\ dec.entry > Len(env.dir)
    /\ LET o0 == [obs EXCEPT !.scanned = TRUE]
       IN  IF Len(dec.shares) < 1
           THEN pc' = "dec_exit" /\ obs' = Exit(o0, "Zero shares located")
           ELSE IF ~dec.is_signed
           THEN pc' = "dec_recover" /\ obs' = o0
           ELSE IF ~IsSome(dec.pub_key) \/ ~IsSome(dec.signature)
           THEN pc' = "dec_panic" /\ obs' = Exit(o0, "unwrap on None")
           ELSE \E reconstructed_file \in {ReconstructedFile(dec)} :
                \E good \in {Verify(Unwrap(dec.pub_key), reconstructed_file,
                                    Unwrap(dec.signature))} :
                LET o1 == [o0 EXCEPT !.file_verified = Some(good),
                              !.checked = Append(@, [what |-> "file", entry |-> 0,
                                                     msg |-> reconstructed_file])]
                    o2 == Warn(o1, 0, "Signature verification against file's public key failed!")
                IN  IF good
                    THEN pc' = "dec_recover" /\ obs' = o1
                    ELSE IF env.strict
                    THEN /\ pc' = "dec_exit"
                         /\ obs' = Exit(o2, "Will not decrypt using tampered data in strict mode!")
                    ELSE pc' = "ask_file" /\ obs' = Ask(o2, 0, "continue")
    /\ UNCHANGED <<args, target, enc, disk, sigLog, aeadLog, env, dec>>

\* the operator answers ask_to_continue after the file's signature failed
DecAnswerFile ==
    /\ pc = "ask_file"
    /\ \/ pc' = "dec_recover" /\ obs' = obs
       \/ pc' = "dec_abort" /\ obs' = Exit(obs, "Ctrl+C")
    /\ UNCHANGED <<args, target, enc, disk, sigLog, aeadLog, env, dec>>

\* Sharks(threshold).recover(&shares)
DecRecover ==
    /\ pc = "dec_recover"
    /\ LET res == SharksRecover(dec.threshold, dec.shares)
       IN  IF res.ok
           THEN /\ pc' = "dec_decrypt"
                /\ dec' = [dec EXCEPT !.recovered_key = res.key]
                /\ obs' = [obs EXCEPT !.recover_ok = Some(TRUE)]
           ELSE /\ pc' = "dec_exit"
                /\ dec' = dec
                /\ obs' = Exit([obs EXCEPT !.recover_ok = Some(FALSE)], res.err)
    /\ UNCHANGED <<args, target, enc, disk, sigLog, aeadLog, env>>

\* chacha_decrypt(recovered_key, nonce, &file_contents)
DecDecrypt ==
    /\ pc = "dec_decrypt"
    /\ \E res \in {chacha_decrypt(dec.recovered_key, dec.nonce, dec.file_contents)} :
          \* what cc20.decrypt is given, once the key has been built
          LET o1 == [obs EXCEPT !.cipher_input = Some(dec.file_contents)]
          IN  IF res.ok
              THEN /\ pc' = "dec_write"
                   /\ dec' = [dec EXCEPT !.file_plaintext = res.plain]
                   /\ obs' = o1
              ELSE IF res.panic
              THEN /\ pc' = "dec_panic"
                   /\ dec' = dec
                   /\ obs' = Exit(obs, "assertion failed: key length")
              ELSE /\ pc' = "dec_exit"
                   /\ dec' = dec
                   /\ obs' = Exit(o1, "Failed to decrypt file!")
    /\ UNCHANGED <<args, target, enc, disk, sigLog, aeadLog, env>>

\* write_file(decrypted_path, &file_plaintext)
DecWrite ==
    /\ pc = "dec_write"
    /\ disk' = [disk EXCEPT !.plain = Some(dec.file_plaintext)]
    /\ pc' = "dec_done"
    /\ UNCHANGED <<args, target, enc, sigLog, aeadLog, env, dec, obs>>

(***************************************************************************)
(* The specification.                                                      *)
(***************************************************************************)
Next ==
    \/ EncCheckArgs
    \/ EncGenerate
    \/ EncSplit
    \/ EncReadPlaintext
    \/ EncWriteShare
    \/ EncCipher
    \/ EncWriteFile
    \/ EnvPrepare
    \/ DecReadTarget
    \/ DecAnswerPubkey
    \/ DecParseSignature
    \/ DecAnswerSignature
    \/ DecScanEntry
    \/ DecAnswerThreshold
    \/ DecAnswerShare
    \/ DecAfterScan
    \/ DecAnswerFile
    \/ DecRecover
    \/ DecDecrypt
    \/ DecWrite

Spec == Init /\ [][Next]_vars

(***************************************************************************)
(* Vocabulary of the properties.                                           *)
(***************************************************************************)
DecTerminal == {"dec_done", "dec_exit", "dec_panic", "dec_abort"}
DecRunning ==
    {"dec_read", "ask_pubkey", "dec_sig", "ask_sig", "dec_scan", "ask_threshold",
     "ask_share", "ask_file", "dec_recover", "dec_decrypt", "dec_write"}
InDecrypt == pc \in DecTerminal \cup DecRunning

\* the directory entries that are share containers as Encrypt wrote them
GenuineEntries == {i \in 1..Len(env.dir) : env.dir[i].fault = "none"}

\* entries that have nothing to do with the target file: random bytes, or a
\* share of another encryption run
UnrelatedFaults == {"nonce", "magic", "short"}

\* the distinct shares in the pool
PoolDistinct == {dec.shares[i] : i \in 1..Len(dec.shares)}

\* a pooled share as share_from_file returned it
PooledShf(k) == share_from_file(EntryBytes(env.dir[dec.pooled[k]]), dec.nonce)

(***************************************************************************)
(* C1.  Round trip of the two commands: Decrypt of the file container as   *)
(* Encrypt wrote it, on a directory that holds at least threshold of the   *)
(* share containers as written and otherwise only unrelated files, ends    *)
(* in success and writes exactly the plaintext Encrypt read.               *)
(***************************************************************************)
C1_Case ==
    /\ InDecrypt
    /\ env.ffault = "none"
    /\ \A i \in 1..Len(env.dir) : env.dir[i].fault \in {"none"} \cup UnrelatedFaults
    /\ Cardinality(GenuineEntries) >= args.threshold

\* C1: Decrypt of what Encrypt wrote, given at least threshold of its share
\* containers and any unrelated files, ends in success and writes the
\* original plaintext.
C1_RoundTrip ==
    (C1_Case /\ pc \in DecTerminal) =>
        (pc = "dec_done" /\ disk.plain = Some(target.bytes))

(***************************************************************************)
(* C2.  Too few shares.  The case: the scan is over and the pool holds     *)
(* fewer distinct shares than the threshold the key was split with.        *)
(***************************************************************************)
C2_Case == obs.scanned /\ Cardinality(PoolDistinct) < args.threshold

C2_NoKeyNoPlaintext ==
    /\ disk.plain = None
    /\ pc \notin {"dec_decrypt", "dec_write", "dec_done"}
    /\ obs.recover_ok # Some(TRUE)

\* C2: with fewer distinct shares in the pool than the threshold, Decrypt
\* fails with an insufficient-shares error, writes no plaintext and never
\* goes on with a reconstructed key.
C2_Insufficient ==
    C2_Case =>
        /\ C2_NoKeyNoPlaintext
        /\ pc \in DecTerminal =>
              /\ pc = "dec_exit"
              /\ obs.exit \in {"Zero shares located",
                               "Not enough shares to recover original secret"}

(***************************************************************************)
(* C3.  A share is pooled only when its file has at least 20 bytes, starts *)
(* with "CCMS" and carries the nonce of the target file; a share with      *)
(* another run's nonce is never pooled.                                    *)
(***************************************************************************)
\* C3: every pooled entry has at least 20 bytes, the magic "CCMS" and the
\* nonce of the target file; a share of another run is never pooled.
C3_PooledOnlyMatching ==
    /\ \A k \in 1..Len(dec.pooled) :
          LET bytes == EntryBytes(env.dir[dec.pooled[k]])
          IN  /\ Len(bytes) >= 20
              /\ SubSeq(bytes, 1, 4) = <<67, 67, 77, 83>>
              /\ SubSeq(bytes, 8, 19) = SubSeq(TargetFileBytes, 7, 18)
    /\ \A k \in 1..Len(dec.pooled) : env.dir[dec.pooled[k]].fault # "nonce"
    /\ Len(dec.shares) = Len(dec.pooled)

\* a share of another run was scanned and left out, a matching one pooled
C3_Witness ==
    /\ Len(dec.pooled) >= 1
    /\ \E i \in 1..Len(env.dir) :
          /\ i < dec.entry
          /\ env.dir[i].fault = "nonce"
          /\ \E j \in 1..Len(obs.skipped) : obs.skipped[j].entry = i

(***************************************************************************)
(* C4.  Strict mode on a signed file: when key recovery starts, every      *)
(* pooled share is signed, carries the file's public key and verifies.     *)
(***************************************************************************)
ShareVerifies(shf) ==
    /\ shf.is_signed
    /\ IsSome(shf.pub_key) /\ IsSome(shf.signature)
    /\ Verify(Unwrap(shf.pub_key),
              ReconstructedShare(shf, Unwrap(shf.pub_key)), Unwrap(shf.signature))

\* C4: in strict mode on a signed file every pooled share is signed with the
\* file's public key and verifies, when key recovery starts.
C4_StrictPoolSigned ==
    (pc = "dec_recover" /\ env.strict /\ dec.is_signed) =>
        \A k \in 1..Len(dec.pooled) :
            /\ ShareVerifies(PooledShf(k))
            /\ PooledShf(k).pub_key = dec.pub_key

(***************************************************************************)
(* C5.  Not strict: a pooled share that mismatches the file's signing      *)
(* (one of the two signed and the other not, another public key, a         *)
(* signature that does not verify) was warned about and the operator was   *)
(* asked to continue before it was pooled.                                 *)
(***************************************************************************)
SigningMismatch(shf) ==
    \/ dec.is_signed # shf.is_signed
    \/ /\ dec.is_signed /\ shf.is_signed
       /\ \/ shf.pub_key # dec.pub_key
          \/ ~ShareVerifies(shf)

SigningWarnings ==
    {"Share is missing a public key", "Share is missing a signature",
     "Encrypted file is not signed, but this share believes it should be",
     "File and share do not use the same public key!",
     "Share verification from public key failed!"}

\* C5: not in strict mode, every pooled share with a signing mismatch was
\* warned about and continued by the operator.
C5_MismatchSurfaced ==
    ~env.strict =>
        \A k \in 1..Len(dec.pooled) :
            SigningMismatch(PooledShf(k)) =>
                /\ \E w \in 1..Len(obs.warnings) :
                      /\ obs.warnings[w].entry = dec.pooled[k]
                      /\ obs.warnings[w].kind \in SigningWarnings
                /\ \E q \in 1..Len(obs.prompts) :
                      obs.prompts[q] = [entry |-> dec.pooled[k], kind |-> "continue"]

(***************************************************************************)
(* C6.  The payload handed to the cipher is the target file from offset 18 *)
(* when the byte at offset 5 is 0 and from offset 114 when it is not.      *)
(***************************************************************************)
FlagHeaderLength(file, flagOffset, base) ==
    IF Len(file) > flagOffset /\ At(file, flagOffset) # 0
    THEN base + PUBLIC_KEY_LENGTH + SIGNATURE_LENGTH
    ELSE base

\* C6: the cipher's input is the file from offset 18 or 114, as the byte at
\* offset 5 says.
C6_PayloadByFlag ==
    IsSome(obs.cipher_input) =>
        Unwrap(obs.cipher_input) =
            Slice(TargetFileBytes, FlagHeaderLength(TargetFileBytes, 5, HEADER_LENGTH_FILE),
                  Len(TargetFileBytes))

(***************************************************************************)
(* C7.  A target file shorter than the header length its signed flag       *)
(* implies ends Decrypt with a reported format error and a share that      *)
(* short is left out of the pool with a reported error, never with a       *)
(* slice out of bounds; a file or share that is long enough is never       *)
(* reported as too small.                                                  *)
(***************************************************************************)
FileFormatErrors ==
    {"File not encrypted (smaller than CCM header)",
     "File not encrypted (CCM header missing)",
     "Target file failed validation: smaller than signed CCM header"}

FileTooSmallErrors ==
    {"File not encrypted (smaller than CCM header)",
     "Target file failed validation: smaller than signed CCM header"}

ShareTooSmallErrors ==
    {"Invalid share (file smaller than CCMS header)",
     "Invalid share (file smaller than signed CCMS header)"}

C7_FileRead == InDecrypt /\ pc # "dec_read"

C7_ScannedEntries ==
    {i \in 1..Len(env.dir) :
        /\ env.dir[i].fault \notin {"unreadable", "globerr"}
        /\ \/ i < dec.entry
           \/ i = dec.entry /\ pc \in {"ask_threshold", "ask_share"}}

\* C7: a file or share shorter than its implied header length is reported
\* and never sliced out of bounds; one long enough is never reported as too
\* small.
C7_TruncationReported ==
    /\ C7_FileRead =>
          IF Len(TargetFileBytes) < FlagHeaderLength(TargetFileBytes, 5, HEADER_LENGTH_FILE)
          THEN pc = "dec_exit" /\ obs.exit \in FileFormatErrors
          ELSE obs.exit \notin FileTooSmallErrors
    /\ \A i \in C7_ScannedEntries :
          LET bytes == EntryBytes(env.dir[i])
              reported == {obs.skipped[j].why :
                              j \in {j \in 1..Len(obs.skipped) : obs.skipped[j].entry = i}}
          IN  IF Len(bytes) < FlagHeaderLength(bytes, 6, HEADER_LENGTH_SHARE)
              THEN /\ reported # {}
                   /\ \A k \in 1..Len(dec.pooled) : dec.pooled[k] # i
              ELSE reported \cap ShareTooSmallErrors = {}

(***************************************************************************)
(* C8.  Decoding what Encrypt encoded gives back version, threshold,       *)
(* signed flag and nonce, and for a signed container public key and        *)
(* signature: the file container as the target file of Decrypt, the share  *)
(* containers through share_from_file.                                     *)
(***************************************************************************)
C8_FileDecoded == InDecrypt /\ pc # "dec_read" /\ env.ffault = "none"

\* C8: the header fields decoded are the header fields encoded, for the
\* file container and for every share container.
C8_HeaderRoundTrip ==
    /\ C8_FileDecoded =>
          /\ dec.target_algo_version = ALGO_VERSION
          /\ dec.file_threshold = args.threshold
          /\ dec.nonce = enc.nonce
          /\ pc \notin {"dec_sig", "ask_pubkey"} => dec.is_signed = args.sign
          /\ args.sign => dec.pub_key = Some(PublicKeyBytes(HonestKeypair))
          /\ (args.sign /\ pc \notin {"dec_sig", "ask_pubkey", "ask_sig"}) =>
                dec.signature = Some(Slice(Unwrap(disk.file),
                                           HEADER_LENGTH_FILE + PUBLIC_KEY_LENGTH,
                                           HEADER_LENGTH_FILE + PUBLIC_KEY_LENGTH
                                               + SIGNATURE_LENGTH))
    /\ \A i \in 1..Len(disk.shares) :
          LET shf == share_from_file(disk.shares[i], enc.nonce)
          IN  /\ shf.ok
              /\ shf.threshold = args.threshold
              /\ shf.is_signed = args.sign
              /\ shf.nonce = enc.nonce
              /\ ShareToBytes(shf.share_data) = enc.shares[i]
              /\ args.sign =>
                    /\ shf.pub_key = Some(PublicKeyBytes(HonestKeypair))
                    /\ shf.signature =
                          Some(Slice(disk.shares[i], HEADER_LENGTH_SHARE + PUBLIC_KEY_LENGTH,
                                     HEADER_LENGTH_SHARE + PUBLIC_KEY_LENGTH
                                         + SIGNATURE_LENGTH))

(***************************************************************************)
(* C9.  The signature of a signed file container that nobody touched       *)
(* verifies at Decrypt whatever happened during the scan.                  *)
(***************************************************************************)
\* C9: whenever Decrypt checks the signature of an untouched signed file,
\* the check succeeds.
C9_UntouchedFileVerifies ==
    (args.sign /\ env.ffault = "none" /\ IsSome(obs.file_verified)) =>
        obs.file_verified = Some(TRUE)

(***************************************************************************)
(* C10.  What is signed at Encrypt and rebuilt at Decrypt.                 *)
(***************************************************************************)
\* Encrypt signed msg, and the container carries that signature after its
\* public key
C10_Signed(container, base, msg) ==
    /\ LogIndex(sigLog, [pk |-> PublicKeyBytes(HonestKeypair), msg |-> msg]) > 0
    /\ Slice(container, base + PUBLIC_KEY_LENGTH,
             base + PUBLIC_KEY_LENGTH + SIGNATURE_LENGTH) = SignatureOf(HonestKeypair, msg)

C10_FileLayout(version, threshold, nonce, pk, body) ==
    HEADER_FILE \o <<version, threshold, 1>> \o nonce \o pk \o body

C10_ShareLayout(version, threshold, nonce, pk, body) ==
    HEADER_SHARE \o <<version, threshold, 1>> \o nonce \o pk \o body

\* the share container Decrypt read for a checked sequence, and its parse
C10_CheckedBytes(c) == EntryBytes(env.dir[c.entry])
C10_CheckedShf(c) == share_from_file(C10_CheckedBytes(c), dec.nonce)

\* C10: the sequence signed at Encrypt and the sequence rebuilt at Decrypt
\* are magic, version, threshold, signed flag, nonce, public key, body, and
\* nothing else, for the file container and for the share containers; at
\* Decrypt the fields are those parsed from the container.
C10_SignableLayout ==
    /\ args.sign =>
          /\ \A i \in 1..Len(disk.shares) :
                C10_Signed(disk.shares[i], HEADER_LENGTH_SHARE,
                           C10_ShareLayout(ALGO_VERSION, args.threshold, enc.nonce,
                                           PublicKeyBytes(HonestKeypair), enc.shares[i]))
          /\ IsSome(disk.file) =>
                C10_Signed(Unwrap(disk.file), HEADER_LENGTH_FILE,
                           C10_FileLayout(ALGO_VERSION, args.threshold, enc.nonce,
                                          PublicKeyBytes(HonestKeypair), enc.file_encrypted))
    /\ \A j \in 1..Len(obs.checked) :
          LET c == obs.checked[j]
          IN  IF c.what = "file"
              THEN c.msg = C10_FileLayout(dec.target_algo_version, dec.file_threshold,
                                          dec.nonce, Unwrap(dec.pub_key), dec.file_contents)
              ELSE c.msg = C10_ShareLayout(At(C10_CheckedBytes(c), Len(HEADER_SHARE)),
                                           C10_CheckedShf(c).threshold,
                                           C10_CheckedShf(c).nonce,
                                           Unwrap(C10_CheckedShf(c).pub_key),
                                           ShareToBytes(C10_CheckedShf(c).share_data))

(***************************************************************************)
(* C11.  Threshold cross-check of every share.                             *)
(***************************************************************************)
C11_Asked(entry) ==
    \E q \in 1..Len(obs.prompts) : obs.prompts[q] = [entry |-> entry, kind |-> "threshold"]

\* C11: every pooled share whose threshold differs from the threshold the
\* target file declares was pooled after a threshold-mismatch prompt for it,
\* whatever was answered to earlier prompts.
C11_MismatchAsked ==
    \A k \in 1..Len(dec.pooled) :
        PooledShf(k).threshold # dec.file_threshold => C11_Asked(dec.pooled[k])

(***************************************************************************)
(* C12.  Errors about one candidate share.                                 *)
(***************************************************************************)
\* the entry cannot be listed, opened or read, or share_from_file rejects it
C12_ShareError(i) ==
    \/ env.dir[i].fault \in {"unreadable", "globerr"}
    \/ ~share_from_file(EntryBytes(env.dir[i]), dec.nonce).ok

\* the target file is dealt with: its contents, which hold at least the
\* cipher's tag, are split off the header
C12_ScanStarted == InDecrypt /\ dec.file_contents # <<>>

\* C12: an entry with an error of its own is left out and reported, the scan
\* goes on behind it, and Decrypt never ends on it.
C12_ShareErrorsOnlyExclude ==
    C12_ScanStarted =>
        /\ \A i \in 1..Len(env.dir) :
              (C12_ShareError(i) /\ i < dec.entry) =>
                  /\ \E j \in 1..Len(obs.skipped) : obs.skipped[j].entry = i
                  /\ \A k \in 1..Len(dec.pooled) : dec.pooled[k] # i
        /\ (pc \in DecTerminal /\ ~obs.scanned /\ dec.entry <= Len(env.dir)) =>
              ~C12_ShareError(dec.entry)

(***************************************************************************)
(* C13.  A malformed header of the target file.                            *)
(***************************************************************************)
C13_Malformed ==
    LET f == TargetFileBytes
        signedLen == HEADER_LENGTH_FILE + PUBLIC_KEY_LENGTH + SIGNATURE_LENGTH
    IN  \/ Len(f) < HEADER_LENGTH_FILE
        \/ Slice(f, 0, Len(HEADER_FILE)) # HEADER_FILE
        \/ /\ At(f, 5) # 0
           /\ \/ Len(f) < signedLen
              \/ ~PublicKeyFromBytes(Slice(f, HEADER_LENGTH_FILE,
                                           HEADER_LENGTH_FILE + PUBLIC_KEY_LENGTH)).ok
              \/ ~SignatureFromBytes(Slice(f, HEADER_LENGTH_FILE + PUBLIC_KEY_LENGTH,
                                           signedLen)).ok

\* C13: on a target file with a malformed header Decrypt gets no further
\* than the target file, strict or not: no share is gathered, no key is
\* reconstructed, nothing is written.
C13_MalformedAborts ==
    (InDecrypt /\ C13_Malformed) =>
        /\ pc \in {"dec_read", "dec_sig", "ask_pubkey", "ask_sig",
                   "dec_exit", "dec_panic", "dec_abort"}
        /\ dec.entry = 1 /\ dec.shares = <<>>
        /\ obs.recover_ok = None
        /\ disk.plain = None

(***************************************************************************)
(* C14.  Outputs of Encrypt and its cryptographic steps.                   *)
(***************************************************************************)
\* chacha_encrypt has returned the ciphertext: the cipher and its
\* self-decrypt check have succeeded
C14_CipherSucceeded == Len(enc.file_encrypted) >= TAG_LENGTH

\* C14: a share container or the file container is on storage only when the
\* cipher and its self-decrypt check have succeeded; a run that fails there
\* has written nothing.
C14_OutputsAfterCipher ==
    (disk.shares # <<>> \/ IsSome(disk.file)) => C14_CipherSucceeded

(***************************************************************************)
(* C15.  The plaintext output of Decrypt.                                  *)
(***************************************************************************)
\* the payload is a body sealed under the key and the nonce, with its tag
C15_Sealed(key, nonce, payload) ==
    /\ Len(payload) >= TAG_LENGTH
    /\ \E i \in 1..Len(aeadLog) :
          /\ aeadLog[i] = [key |-> key, nonce |-> nonce,
                           body |-> SubSeq(payload, 1, Len(payload) - TAG_LENGTH)]
          /\ SubSeq(payload, Len(payload) - TAG_LENGTH + 1, Len(payload))
                = TagBytes(key, nonce, aeadLog[i].body)

\* the payload went to the cipher and its tag did not pass
C15_TagFailed ==
    /\ IsSome(obs.cipher_input)
    /\ ~C15_Sealed(dec.recovered_key, dec.nonce, Unwrap(obs.cipher_input))

\* C15: a plaintext is written only after key recovery succeeded and the
\* payload passed the cipher's tag check under the recovered key; after a
\* failed recovery or a failed tag check Decrypt has ended with an error and
\* nothing is written, strict or not.  (A recovered key of another length
\* than 32 bytes ends the run in a panic before the cipher is reached,
\* with nothing written either.)
C15_PlaintextOnlyAfterSuccess ==
    /\ IsSome(disk.plain) =>
          /\ obs.recover_ok = Some(TRUE)
          /\ IsSome(obs.cipher_input)
          /\ C15_Sealed(dec.recovered_key, dec.nonce, Unwrap(obs.cipher_input))
    /\ obs.recover_ok = Some(FALSE) =>
          pc = "dec_exit" /\ disk.plain = None /\ obs.cipher_input = None
    /\ C15_TagFailed =>
          pc = "dec_exit" /\ obs.exit = "Failed to decrypt file!" /\ disk.plain = None
    /\ obs.exit = "assertion failed: key length" =>
          pc = "dec_panic" /\ obs.cipher_input = None /\ disk.plain = None

\* a payload that was changed reached the cipher under the right key and
\* was turned down
C15_Witness ==
    /\ C15_TagFailed
    /\ obs.recover_ok = Some(TRUE)
    /\ dec.recovered_key = enc.key
    /\ pc = "dec_exit"

(***************************************************************************)
(* C16.  Encrypt on a bad command line.                                    *)
(***************************************************************************)
C16_BadArguments == args.threshold > args.players \/ args.threshold = 0 \/ args.players = 0

\* C16: with threshold > players, threshold = 0 or players = 0 Encrypt ends
\* at the argument checks: no key, no nonce, no keypair's signature, no file
\* read, no file written.
C16_BadArgumentsAbortEarly ==
    C16_BadArguments =>
        /\ pc \in {"enc_args", "enc_exit"}
        /\ enc.key = <<>> /\ enc.nonce = <<>> /\ enc.shares = <<>>
        /\ sigLog = <<>> /\ aeadLog = <<>>
        /\ enc.file_plaintext = <<>>
        /\ disk.shares = <<>> /\ disk.file = None /\ disk.plain = None

\* Encrypt has turned down a threshold of zero for a positive number of
\* players
C16_Witness ==
    /\ pc = "enc_exit"
    /\ args.threshold = 0 /\ args.players >= 1
    /\ obs.exit = "bad arguments"

(***************************************************************************)
(* C17.  The self-check of Encrypt after the split.                        *)
(***************************************************************************)
C17_SplitDone == enc.shares # <<>>

\* nothing of this run is on storage and the target file is not read
C17_NothingWritten ==
    disk.shares = <<>> /\ disk.file = None /\ enc.file_plaintext = <<>>

C17_SelfCheck(count) ==
    /\ C17_SplitDone =>
          /\ Len(enc.recovered_shares) = count
          /\ \A i \in 1..Len(enc.recovered_shares) :
                \E j \in 1..Len(enc.shares) :
                    ShareToBytes(enc.recovered_shares[i]) = enc.shares[j]
          /\ pc # "enc_panic" => enc.recovered_key = enc.key
    /\ (pc = "enc_panic" /\ obs.exit = "Unable to recover the key from our shares") =>
          C17_NothingWritten
    /\ ~C17_NothingWritten => (C17_SplitDone /\ enc.recovered_key = enc.key)

\* C17 as claimed: the key is recovered from exactly threshold of the shares
\* produced and compared with the key; outputs exist only when they agreed.
C17_SelfCheckFromThreshold == C17_SelfCheck(args.threshold)

\* C17 as amended: the key is recovered from all the players shares produced
\* and compared with the key; outputs exist only when they agreed.
C17_SelfCheckFromAll == C17_SelfCheck(args.players)

\* the self-check has passed on more shares than the threshold
C17_Witness ==
    /\ pc = "enc_read"
    /\ args.players > args.threshold
    /\ Len(enc.recovered_shares) = args.players
    /\ enc.recovered_key = enc.key


(***************************************************************************)
(* C18.  Duplicates in the pool: the directory holds a quorum of the share *)
(* containers as written and, under a second name, a copy of one of them.  *)
(***************************************************************************)
C18_Case ==
    /\ InDecrypt
    /\ env.ffault = "none"
    /\ \A i \in 1..Len(env.dir) : env.dir[i].fault \in {"none", "copy"}
    /\ \E i \in 1..Len(env.dir) : env.dir[i].fault = "copy"
    /\ Cardinality(GenuineEntries) >= args.threshold

\* C18: when the pool holds a quorum of distinct valid shares of the file
\* plus a repeated copy of one of them, the key Decrypt reconstructs is the
\* key Encrypt generated, the payload opens, and the plaintext written is
\* the plaintext Encrypt read.
C18_DuplicatesTolerated ==
    C18_Case =>
        /\ obs.recover_ok = Some(TRUE) => dec.recovered_key = enc.key
        /\ obs.exit # "Failed to decrypt file!"
        /\ pc = "dec_done" => disk.plain = Some(target.bytes)


(***************************************************************************)
(* C19.  Key memory at the end of the process.  The buffers that hold the  *)
(* symmetric key are `key` and `recovered_key` of Encrypt and              *)
(* `recovered_key` of Decrypt; a buffer that was never filled is <<>>.     *)
(***************************************************************************)
C19_EncryptEnded == pc \in {"enc_exit", "enc_panic", "enc_done"}

C19_Overwritten(buffer) == buffer = <<>> \/ buffer = Zeros(Len(buffer))

\* C19: when Encrypt or Decrypt ends, by success, by a reported error or by
\* an early abort, every buffer that held the symmetric key has been
\* overwritten with zeros.
C19_KeyOverwrittenAtExit ==
    /\ C19_EncryptEnded =>
          C19_Overwritten(enc.key) /\ C19_Overwritten(enc.recovered_key)
    /\ pc \in DecTerminal => C19_Overwritten(dec.recovered_key)


(***************************************************************************)
(* C20.  The threshold in use after a threshold prompt was answered with   *)
(* nothing.                                                                *)
(***************************************************************************)
C20_LastAnswerEmpty ==
    /\ obs.answers # <<>>
    /\ obs.answers[Len(obs.answers)].empty

\* C20: once a threshold mismatch was answered with an empty response, and
\* until another prompt is answered, the threshold Decrypt uses (for the
\* rest of the scan, for the file's signable bytes and for key recovery) is
\* the threshold the target file declares, also when an earlier mismatch of
\* the same scan was answered with an override value.
C20_EmptyAnswerUsesFileThreshold ==
    C20_LastAnswerEmpty => dec.threshold = dec.file_threshold


(***************************************************************************)
(* C21.  The order of Encrypt's reads and writes.                          *)
(***************************************************************************)
\* the plaintext is in memory before a share is on storage, an unreadable
\* target leaves nothing on storage, and the file container is on storage
\* only together with all `players` share containers
C21_Order ==
    /\ disk.shares # <<>> => target.readable /\ enc.file_plaintext = target.bytes
    /\ ~target.readable => disk.shares = <<>> /\ disk.file = None
    /\ IsSome(disk.file) => Len(disk.shares) = args.players
    /\ pc = "enc_done" => IsSome(disk.file) /\ Len(disk.shares) = args.players

\* a share container is written only while no file container is written,
\* and the file container is written once
C21_Step ==
    /\ disk'.shares # disk.shares =>
          /\ disk.file = None /\ disk'.file = None
          /\ Len(disk'.shares) = Len(disk.shares) + 1
          /\ SubSeq(disk'.shares, 1, Len(disk.shares)) = disk.shares
    /\ disk'.file # disk.file => disk.file = None

\* C21: Encrypt reads the target plaintext before it writes any share, so
\* an unreadable target leaves no share container behind; a successful
\* Encrypt has written exactly `players` share containers, all of them
\* before the single file container.
C21_ReadThenSharesThenFile == []C21_Order /\ [][C21_Step]_vars

C21_Witness ==
    /\ pc = "enc_done"
    /\ args.players >= 2
    /\ Len(disk.shares) = args.players
    /\ IsSome(disk.file)


(***************************************************************************)
(* C22.  Signedness and the presence of keys and signatures.               *)
(***************************************************************************)
\* the target file has been processed: the block of main.rs:806-887 has
\* yielded is_signed, pub_key and signature
C22_TargetProcessed == InDecrypt /\ dec.processed

C22_FileSignedHasBoth ==
    dec.is_signed => IsSome(dec.pub_key) /\ IsSome(dec.signature)

\* what share_from_file returns for a directory entry that can be read
C22_ShareSignedIffBoth(i) ==
    LET shf == share_from_file(EntryBytes(env.dir[i]), dec.nonce)
    IN  shf.ok => /\ shf.is_signed <=> (IsSome(shf.pub_key) /\ IsSome(shf.signature))
                  /\ IsSome(shf.pub_key) <=> IsSome(shf.signature)

C22_MissingBranches ==
    {"Share is missing a public key", "Share is missing a signature"}

\* a share that share_from_file returns is marked signed exactly when it
\* carries both a public key and a signature; no unwrap of the file's key
\* or signature fails, and the "share is missing a public key / a
\* signature" branches of share verification are never taken
C22_SharesAndUnwraps ==
    /\ (InDecrypt /\ dec.nonce # <<>>) =>
          \A i \in 1..Len(env.dir) :
              env.dir[i].fault \notin {"unreadable", "globerr"} => C22_ShareSignedIffBoth(i)
    /\ obs.exit # "unwrap on None"
    /\ \A w \in 1..Len(obs.warnings) : obs.warnings[w].kind \notin C22_MissingBranches

\* C22 as claimed: in every state of Decrypt the file is treated as signed
\* only if both its public key and its signature parsed; a share that
\* share_from_file returns is marked signed exactly when it carries both a
\* public key and a signature; no unwrap of the file's key or signature
\* fails, and the "share is missing a public key / a signature" branches of
\* share verification are never taken.
C22_SignedMeansPresentAlways ==
    /\ InDecrypt => C22_FileSignedHasBoth
    /\ C22_SharesAndUnwraps

\* C22 as amended: the same, with the file's half stated for the states of
\* Decrypt after the target file has been processed.
C22_SignedMeansPresent ==
    /\ C22_TargetProcessed => C22_FileSignedHasBoth
    /\ C22_SharesAndUnwraps

\* a signed file whose scan verified a signed share and pooled an unsigned
\* one
C22_Witness ==
    /\ pc = "dec_recover"
    /\ dec.is_signed
    /\ \E c \in 1..Len(obs.checked) : obs.checked[c].what = "share"
    /\ \E k \in 1..Len(dec.pooled) : ~PooledShf(k).is_signed

====
